---------------------------- MODULE Spec2Model ----------------------------
(***************************************************************************)
(* The resilient API request pipeline of brightspace_mcp/brightspace.py:   *)
(* BrightspaceClient.request with its 401 refresh / 429 backoff /          *)
(* transport-error retry loop, the credential refresh sub-protocol and the *)
(* version-fallback dispatcher.                                            *)
(*                                                                         *)
(* A coroutine runs without interruption between two network calls (the    *)
(* only points at which it yields to the event loop), so every action      *)
(* below is one such segment: from the arrival of a network answer to the  *)
(* next network call, or to the end of the operation.  Strings are tuples  *)
(* of string pieces, so that startswith, concatenation and rstrip are      *)
(* computed and not assumed.  None is the empty tuple and Some(x) is <<x>>.*)
(***************************************************************************)
EXTENDS Integers, Sequences, FiniteSets, TLC

\* ------------------------------------------------------------------ bounds
\* Largest max_retries a session is constructed with.
MaxRetries == 2
\* How many times the token endpoints answer with an empty access_token.
MaxEmpty == 1
\* Largest max_retries of a session that runs the version dispatcher.
FallbackRetries == 1
\* Largest max_pages a walk over the pages is given.
MaxPages == 3
\* Largest max_retries of a session that walks over pages.
PaginateRetries == 1
\* Largest max_retries of a session whose callers race on the credential.
RaceRetries == 1
\* Largest max_retries of a session whose callers pass headers of their own.
HeaderRetries == 2
\* Largest max_retries of a session whose token endpoints are under study.
RefreshRetries == 1
\* Largest max_retries of a session on which every operation is called.
SessionRetries == 1
\* Largest max_retries of a session whose bearer credentials are under study.
BearerRetries == 1
\* Largest max_retries of a session that uploads.
UploadRetries == 2

\* --------------------------------------------------------------- basic data
None == <<>>
Some(x) == <<x>>
Callers == {"A", "B"}

\* str.startswith(prefix) for a one-piece prefix
StartsWith(s, piece) == s # <<>> /\ s[1] = piece
\* `marker in s`
Contains(s, marker) == \E i \in 1..Len(s) : s[i] = marker

RECURSIVE RStrip(_, _)
\* str.rstrip(piece)
RStrip(s, piece) ==
  IF s # <<>> /\ s[Len(s)] = piece THEN RStrip(SubSeq(s, 1, Len(s) - 1), piece) ELSE s

\* str.upper() on the method names in use
Upper(m) ==
  CASE m = "get" -> "GET"
    [] m = "post" -> "POST"
    [] OTHER -> m

\* self._access_token right after construction
NoToken == -1
\* an access_token value that Python treats as false (the empty string)
EmptyToken == 0
\* The access token that a token endpoint issues when tok is the cached one:
\* the tokens are 1 and 2, and a new one differs from the one it replaces
FreshToken(tok) == IF tok = 1 THEN 2 ELSE 1
\* `not self._access_token`
Falsy(tok) == tok = NoToken \/ tok = EmptyToken

\* The constructor's base_url argument, and self.base_url after rstrip("/")
BaseUrlArg == <<"https://example.com", "/">>
base_url == RStrip(BaseUrlArg, "/")

\* ----------------------------------------------------------- request inputs
PathAbs == <<"/", "d2l/api/lp/1.46/users/whoami">>
PathRel == <<"d2l/api/lp/1.46/users/whoami">>
\* caller-supplied header maps: a custom header, and one with its own Authorization
TraceHeader == [k \in {"X-Trace"} |-> <<"t1", 0>>]
OwnAuthHeaders == [k \in {"Authorization", "X-Trace"} |-> <<"Basic ", 0>>]

\* The arguments of the calls to request that the model explores: a bare GET,
\* a POST with every optional argument, and two paths without a leading "/".
RequestArgs ==
  {[method |-> "get", path |-> PathAbs, params |-> None, json |-> None,
    headers |-> None, expect_json |-> TRUE],
   [method |-> "POST", path |-> PathAbs, params |-> Some("orgUnitId=1"),
    json |-> Some("payload"), headers |-> Some(OwnAuthHeaders), expect_json |-> FALSE],
   [method |-> "get", path |-> PathRel, params |-> None, json |-> None,
    headers |-> Some(TraceHeader), expect_json |-> TRUE],
   [method |-> "POST", path |-> <<>>, params |-> None, json |-> Some("payload"),
    headers |-> None, expect_json |-> TRUE]}

\* ------------------------------------------------------- the API's answers
Statuses == {200, 401, 404, 429, 500}
JsonType == <<"application/json", "; charset=utf-8">>
TextType == <<"text/", "html">>
BinType == <<"application/pdf">>
CTypes == {JsonType, TextType, BinType}
\* Retry-After header values: absent, seconds, an HTTP date, a negative number
RetryAfterValues == {None, <<"2">>, <<"Wed, 21 Oct 2026 07:28:00 GMT">>, <<"-1">>}
Payloads == {"a", "b"}

\* One HTTP answer of the API: status, content type, whether the body is
\* well-formed JSON, the Retry-After header and the raw body.
ApiResponses ==
  {r \in [status : Statuses, ctype : CTypes, json_ok : BOOLEAN,
          retry_after : RetryAfterValues, raw : Payloads] :
     /\ (r.retry_after # None => r.status = 429)
     /\ (~r.json_ok => r.ctype = JsonType)
     /\ (r.raw = "b" => r.status = 200 /\ r.ctype = JsonType /\ r.json_ok)
     /\ (r.status \in {401, 404, 500} => r.ctype = JsonType)
     /\ (r.status = 429 => r.ctype = TextType)}

\* The answers of the API to the requests of the version dispatcher: the
\* statuses that mean "no such version" (404, 410), a success, a redirect and
\* other client and server errors, with the retried 401 and 429
VersionStatuses == {200, 302, 401, 403, 404, 410, 429, 500}
VersionResponses ==
  {r \in [status : VersionStatuses, ctype : {JsonType, TextType}, json_ok : BOOLEAN,
          retry_after : {None, <<"2">>}, raw : Payloads] :
     /\ (r.retry_after # None => r.status = 429)
     /\ (~r.json_ok => r.ctype = JsonType /\ r.status = 404)
     /\ (r.raw = "b" => r.status = 200)
     /\ (r.ctype = TextType <=> r.status \in {302, 429})}

\* float(ra): the number, or a ValueError
ParseFloat(s) ==
  CASE s = <<"2">> -> [ok |-> TRUE, v |-> 2]
    [] s = <<"-1">> -> [ok |-> TRUE, v |-> 0 - 1]
    [] OTHER -> [ok |-> FALSE, v |-> 0]


\* ------------------------------------------------- the token endpoints' answers
\* One answer of a candidate token endpoint: a transport error, or a status
\* with a content type and a body that is a JSON object holding access_token
\* ("token"), another JSON object ("object") or anything else ("other").
TokenAnswers ==
  {a \in [kind : {"response", "error"}, status : {200, 302, 400, 404, 410, 500},
          ctype : {JsonType, TextType}, content : {"token", "object", "other"}] :
     /\ (a.kind = "error" => a.status = 200 /\ a.ctype = TextType /\ a.content = "other")
     /\ (a.status \in {302, 404, 410, 500} => a.ctype = TextType /\ a.content = "other")
     /\ (a.status = 400 => a.ctype = JsonType /\ a.content = "object")}

\* ------------------------------------------------- the scripts that launch
\* The bootstrap and launcher processes of one working directory
Procs == {"p1", "p2", "p3"}
Scripts == {"bootstrap", "launcher"}

\* LOCK_PATH of the bootstrap, line 13, and the default of LOCK_FILE of the
\* launcher, line 21: a relative path, so one file per working directory
LOCK_PATH == ".tokens.lock"
\* The lock files a launcher can be told to use through BS_TOKENS_LOCK
LockFiles == {LOCK_PATH, "/tmp/other.lock"}

\* A process: the script it runs, the lock file it uses, where it is (absent,
\* start, locked, serving, exited), its exit status (-1 while it runs),
\* whether flock raised BlockingIOError, whether it has spawned the server, and
\* the server it spawned (none, running, ended)
NoProc ==
  [script |-> "none", lock |-> LOCK_PATH, pc |-> "absent", code |-> -1,
   blocked |-> FALSE, spawned |-> FALSE, server |-> "none"]
NoLocks == [f \in LockFiles |-> "none"]

------------------------------------------------------------------------------
\* ------------------------------------------------------------------ state
VARIABLES
  access_token,    \* self._access_token, the one field shared by all callers
  refresh_token,   \* self.refresh_token
  client_id,       \* self.client_id
  client_secret,   \* self.client_secret
  max_retries,     \* self.max_retries
  token_url_env,   \* the BS_TOKEN_URL environment variable ("" when unset)
  lp_version,      \* self.lp_version
  le_version,      \* self.le_version
  lp_versions,     \* self.lp_versions
  le_versions,     \* self.le_versions
  empties,         \* how many empty access_token values they have answered
  call,            \* per caller: the coroutine it is running, see IdleCall
  locks,           \* per lock file: the process whose flock the kernel has granted
  procs            \* per bootstrap or launcher process: where it is, see NoProc

\* what __init__ sets and (but for the candidate lists, which a test assigns)
\* nothing else writes
config == <<max_retries, token_url_env, lp_version, le_version,
            lp_versions, le_versions>>
\* what the refresh presents to the token endpoint
creds == <<refresh_token, client_id, client_secret>>
\* the scripts that start the MCP server, and the kernel's table of locks
launch == <<locks, procs>>
vars == <<access_token, creds, config, empties, call, launch>>

NoErr == [kind |-> "None", status |-> 0, url |-> <<>>, body |-> "-"]
NoExc == [type |-> "-", attempt |-> 0, err |-> NoErr]
NoBody == [variant |-> "-", raw |-> "-"]
NoHeaders == [ctype |-> <<>>, retry_after |-> <<>>]
NoResult ==
  [kind |-> "none", status |-> 0, body |-> NoBody, headers |-> NoHeaders, exc |-> NoExc]
NoArgs ==
  [method |-> "-", path |-> <<>>, params |-> None, json |-> None,
   headers |-> None, expect_json |-> TRUE]
NoFallback ==
  [service |-> "-", method |-> "-", tail |-> <<>>, versions |-> None, params |-> None,
   json |-> None, headers |-> None, expect_json |-> TRUE]
NoPaginate == [path |-> <<>>, page_size |-> 0, max_pages |-> 0, params |-> None]
NoOut == [none |-> TRUE]
NoWrapper ==
  [name |-> "-", service |-> "-", method |-> "-", tail |-> <<>>, params |-> None,
   json |-> None, accepts |-> {}]
NoWout == [kind |-> "none", type |-> "-", msg |-> <<>>, value |-> NoBody]
NoBuilt == [service |-> "-", tail |-> <<>>, version |-> None, path |-> <<>>]

\* A caller that runs nothing.  pc is where its coroutine is suspended:
\* "http" in client.request, "post" in client.post of the refresh, "sleep" in
\* time.sleep; "done" once the operation has returned or raised.  retries,
\* last_exc and url are request's locals; why, cand, last_err are the
\* refresh's (why: who awaits it, cand: index of the candidate being posted);
\* fargs, uniq, vidx and last are the version dispatcher's arguments and locals
\* (vidx: index in uniq of the version being requested).  The other fields
\* record what the caller sent and got: trace the events of the current call
\* to request, posted the POSTs of the latest refresh, answer the latest
\* answer of a token endpoint, last_resp the latest answer of the API, vlog
\* the requests of the dispatcher with their results, result the outcome.
\* pargs, npages (the pages requested so far), merged, bookmarks and bookmark
\* are paginate_bookmark's arguments and locals, plog its page requests with
\* what each returned, out the dict it returns.  wrapper is the convenience
\* wrapper that awaits the dispatcher, if any, and wout its outcome.  built
\* holds the arguments and the value of a call to build_path.
IdleCall ==
  [op |-> "none", pc |-> "idle", args |-> NoArgs, url |-> <<>>, retries |-> 0,
   last_exc |-> None, why |-> "-", cand |-> 0, last_err |-> NoErr, delay |-> 0,
   fargs |-> NoFallback, uniq |-> <<>>, vidx |-> 0, last |-> None, returned |-> FALSE,
   posted |-> <<>>, answer |-> None, last_resp |-> None, trace |-> <<>>, vlog |-> <<>>,
   result |-> NoResult,
   pargs |-> NoPaginate, npages |-> 0, merged |-> <<>>, bookmarks |-> <<>>,
   bookmark |-> "null", plog |-> <<>>, out |-> NoOut,
   wrapper |-> NoWrapper, wout |-> NoWout, built |-> NoBuilt]

\* The exceptions of the pipeline
ValueErrorPath == [type |-> "ValueError: path must start with '/'", attempt |-> 0, err |-> NoErr]
RequestError(k) == [type |-> "httpx.RequestError", attempt |-> k, err |-> NoErr]
HTTPStatusError(le) ==
  [type |-> "httpx.HTTPStatusError: Failed to refresh token", attempt |-> 0, err |-> le]
RuntimeErrorRetries ==
  [type |-> "RuntimeError: request failed after retries", attempt |-> 0, err |-> NoErr]
JSONDecodeError(k) == [type |-> "json.JSONDecodeError", attempt |-> k, err |-> NoErr]
SleepValueError(k) ==
  [type |-> "ValueError: sleep length must be non-negative", attempt |-> k, err |-> NoErr]
AssertionErrorLast == [type |-> "AssertionError", attempt |-> 0, err |-> NoErr]

\* Events of a caller's trace: "api" an attempt sent (with the request), "resp"
\* its answer (n the status), "err" its transport error (n the attempt),
\* "sleep" a call of time.sleep (n the delay), "acquired" a credential adopted
\* by the refresh that _auth_headers started and "refreshed" one adopted by the
\* refresh that a 401 started (n the token).
Ev(e, n) == [ev |-> e, n |-> n, sent |-> None]
ApiEvents(tr) == SelectSeq(tr, LAMBDA e : e.ev = "api")
\* the ordinal of the latest API attempt
Attempt(c) == Len(ApiEvents(c.trace))

\* ------------------------------------------------------------ end of a call
Finish(st, res) == [st EXCEPT !.c.pc = "done", !.c.result = res]
Raise(st, exc) ==
  Finish(st, [kind |-> "raise", status |-> 0, body |-> NoBody,
              headers |-> NoHeaders, exc |-> exc])
Return(st, status, body, headers) ==
  Finish(st, [kind |-> "return", status |-> status, body |-> body,
              headers |-> headers, exc |-> NoExc])

\* ------------------------------------------------------------------- auth
\* f"Bearer {self._access_token}"
Bearer(tok) == <<"Bearer ", tok>>

\* Headers in which the bearer credential wins over the caller's Authorization.
auth_headers_bearer_wins(tok, extra) ==
  LET base == [k \in {"Authorization"} |-> Bearer(tok)]
  IN IF extra # None
       THEN [k \in DOMAIN base \cup DOMAIN extra[1] |->
               IF k \in DOMAIN base THEN base[k] ELSE extra[1][k]]
       ELSE base

\* _auth_headers, lines 123-126: the bearer header updated with the caller's
auth_headers(tok, extra) ==
  LET base == [k \in {"Authorization"} |-> Bearer(tok)]
  IN IF extra # None
       THEN [k \in DOMAIN base \cup DOMAIN extra[1] |->
               IF k \in DOMAIN extra[1] THEN extra[1][k] ELSE base[k]]
       ELSE base

\* client.request(method.upper(), url, params=, json=, headers=), lines 155-161
SendApi(st) ==
  LET sent == [method |-> Upper(st.c.args.method), url |-> st.c.url,
               params |-> st.c.args.params, json |-> st.c.args.json,
               headers |-> auth_headers(st.tok, st.c.args.headers)]
  IN [st EXCEPT !.c.pc = "http",
                !.c.trace = Append(@, [ev |-> "api", n |-> 0, sent |-> Some(sent)])]

\* client.post(url, data=fields, files=..., headers=...) of upload_multipart,
\* lines 329-335; the fields and the files go out as the caller gave them
SendUpload(st) ==
  LET sent == [method |-> "POST", url |-> st.c.url, params |-> None, json |-> None,
               headers |-> auth_headers(st.tok, st.c.args.headers)]
  IN [st EXCEPT !.c.pc = "upload",
                !.c.trace = Append(@, [ev |-> "api", n |-> 0, sent |-> Some(sent)])]

\* Candidates with the override tried after the conventional endpoints.
Candidates_override_last ==
  <<RStrip(base_url, "/") \o <<"/d2l/oauth2/token">>,
    RStrip(base_url, "/") \o <<"/d2l/auth/api/token">>,
    <<"https://auth.brightspace.com/core/connect/token">>>>
  \o (IF token_url_env # <<>> THEN <<token_url_env>> ELSE <<>>)

\* The candidate token endpoints in priority order, lines 64-73
Candidates ==
  (IF token_url_env # <<>> THEN <<token_url_env>> ELSE <<>>)
  \o <<RStrip(base_url, "/") \o <<"/d2l/oauth2/token">>,
       RStrip(base_url, "/") \o <<"/d2l/auth/api/token">>,
       <<"https://auth.brightspace.com/core/connect/token">>>>

\* The form of the refresh POST, lines 75-80
PostData(st) ==
  [grant_type |-> "refresh_token", refresh_token |-> st.rt,
   client_id |-> st.cid, client_secret |-> st.csec]

\* client.post(url, data=data, ...), line 86
PostCandidate(st, i) ==
  [st EXCEPT !.c.pc = "post", !.c.cand = i,
             !.c.posted = Append(@, [url |-> Candidates[i], data |-> PostData(st)])]

\* _refresh_access_token up to its first POST, lines 61-86
refresh_access_token(st, why) ==
  PostCandidate([st EXCEPT !.c.why = why, !.c.last_err = NoErr, !.c.posted = <<>>,
                           !.c.answer = None], 1)

\* A refresh whose failure request takes for a transport error and retries.
RefreshFailed_retried(st) ==
  [st EXCEPT !.c.pc = "http", !.c.retries = @ + 1,
             !.c.last_exc = Some(RequestError(Attempt(st.c))),
             !.c.trace = Append(@, [ev |-> "api", n |-> 0, sent |-> None])]

\* raise httpx.HTTPStatusError(...), lines 116-118
RefreshFailed(st) == Raise(st, HTTPStatusError(st.c.last_err))

\* `continue` in the loop over the candidates, line 84
NextCandidate(st) ==
  IF st.c.cand < Len(Candidates) THEN PostCandidate(st, st.c.cand + 1)
  ELSE RefreshFailed(st)

\* The head of request's loop, lines 152-161 and 200-203: another attempt while
\* retries <= max_retries (acquiring a credential first when none is cached),
\* otherwise the exhaustion path.
LoopTop(st) ==
  IF st.c.retries <= max_retries
    THEN IF Falsy(st.tok) THEN refresh_access_token(st, "lazy") ELSE SendApi(st)
    ELSE IF st.c.last_exc # None THEN Raise(st, st.c.last_exc[1])
         ELSE Raise(st, RuntimeErrorRetries)

\* A 401 branch that does not count the retry.
AfterRefresh_uncounted(st) ==
  IF st.c.why = "lazy" THEN SendApi(st)
  ELSE IF st.c.why = "upload" THEN SendUpload(st)
  ELSE LoopTop(st)

\* What follows a successful refresh: _auth_headers goes on to build the
\* headers (lines 123-126) for request or for upload_multipart, request's 401
\* branch counts a retry and loops (lines 166-167).
AfterRefresh(st) ==
  IF st.c.why = "lazy" THEN SendApi(st)
  ELSE IF st.c.why = "upload" THEN SendUpload(st)
  ELSE LoopTop([st EXCEPT !.c.retries = @ + 1])

\* body = r.json() if "application/json" in ctype else r.text, lines 91-96
TokenBody(a) ==
  IF Contains(a.ctype, "application/json") /\ a.content \in {"token", "object"}
    THEN a.content ELSE "text"

\* A refresh that stores the token of an accepted answer and goes on to the
\* next candidate instead of returning.
Adopt_no_return(st, tok) == NextCandidate([st EXCEPT !.tok = tok])

\* A refresh that takes over the refresh token of an accepted answer.
Adopt_rotates(st, tok) ==
  LET a == st.c.answer[1].a
      rt == IF "refresh" \in DOMAIN a /\ a.refresh # None THEN a.refresh[1] ELSE st.rt
  IN AfterRefresh([st EXCEPT !.tok = tok, !.rt = rt, !.c.cand = 0, !.c.last_err = NoErr,
                             !.c.trace = Append(@, Ev(IF st.c.why = "401" THEN "refreshed"
                                                      ELSE "acquired", tok))])

\* An accepted answer, lines 98-100: the token is stored and returned (the
\* locals of the refresh end with it)
Adopt(st, tok) ==
  AfterRefresh([st EXCEPT !.tok = tok, !.c.cand = 0, !.c.last_err = NoErr,
                          !.c.trace = Append(@, Ev(IF st.c.why = "401" THEN "refreshed"
                                                   ELSE "acquired", tok))])

\* A refresh that treats a 400 like any other status.
Rejected_continue(st, err) == NextCandidate([st EXCEPT !.c.last_err = err])

\* A refresh that drops the cached token when the endpoint answers 400.
Rejected_clears(st, err) == RefreshFailed([st EXCEPT !.tok = NoToken, !.c.last_err = err])

\* A 400, lines 108-110: the error is recorded and the loop is left
Rejected(st, err) == RefreshFailed([st EXCEPT !.c.last_err = err])

\* A refresh that forgets to record the error of an unexpected status.
OtherStatus_unrecorded(st, err) == NextCandidate(st)

\* Any other status, lines 112-114: the error is recorded, next candidate
OtherStatus(st, err) == NextCandidate([st EXCEPT !.c.last_err = err])

\* A refresh that gives up when the POST fails in the transport.
RequestErrorCaught_aborts(st) ==
  RefreshFailed([st EXCEPT !.c.last_err =
                   [kind |-> "request error", status |-> 0, url |-> <<>>, body |-> "-"]])

\* except httpx.RequestError, lines 87-89: the error is recorded, next candidate
RequestErrorCaught(st) ==
  NextCandidate([st EXCEPT !.c.last_err =
                   [kind |-> "request error", status |-> 0, url |-> <<>>, body |-> "-"]])

\* 404, 410 or 302, lines 103-105: the error is recorded, next candidate
Moved(st, err) == NextCandidate([st EXCEPT !.c.last_err = err])

\* One answer of the candidate being posted, lines 87-114
token_response(s0, a, tok) ==
  LET st == [s0 EXCEPT !.c.answer = Some([a |-> a, tok |-> tok, cand |-> s0.c.cand])]
      url == Candidates[st.c.cand]
      body == TokenBody(a)
      err(kind) == [kind |-> kind, status |-> a.status, url |-> url,
                    body |-> IF kind = "status at url: body" THEN body ELSE "-"]
  IN IF a.kind = "error" THEN RequestErrorCaught(st)
     ELSE IF a.status = 200 /\ body = "token" THEN Adopt(st, tok)
     ELSE IF a.status \in {404, 410, 302} THEN Moved(st, err("status at url"))
     ELSE IF a.status = 400 THEN Rejected(st, err("status at url: body"))
     ELSE OtherStatus(st, err("status at url: body"))

\* ---------------------------------------------------------------- request
\* A request that skips the check of its path.
request_unchecked(st, args) ==
  LoopTop([st EXCEPT !.c.url = base_url \o args.path, !.c.retries = 0, !.c.last_exc = None])

\* request from its entry to its first network call, lines 145-161
request(st, args) ==
  IF ~StartsWith(args.path, "/") THEN Raise(st, ValueErrorPath)
  ELSE LoopTop([st EXCEPT !.c.url = base_url \o args.path,
                          !.c.retries = 0, !.c.last_exc = None])

\* The delay of the 429 branch, lines 171-177
BackoffDelay(ra) ==
  IF ra # <<>> /\ ParseFloat(ra).ok THEN ParseFloat(ra).v ELSE 1

\* A body variant that gives the text of a JSON response unless expect_json.
BodyVariant_by_flag(ctype, expect_json) ==
  IF expect_json /\ Contains(ctype, "application/json") THEN "json"
  ELSE IF Contains(ctype, "text/") \/ Contains(ctype, "application/json") THEN "text"
  ELSE "b64"

\* The body variant of a response, lines 183-192: "json" stands for r.json(),
\* "text" for r.text and "b64" for the base64 text of r.content.
BodyVariant(ctype, expect_json) ==
  IF expect_json /\ Contains(ctype, "application/json") THEN "json"
  ELSE IF Contains(ctype, "application/json") THEN "json"
  ELSE IF Contains(ctype, "text/") THEN "text"
  ELSE "b64"

\* success or non-retriable error, lines 182-194
Classify(st, r) ==
  LET v == BodyVariant(r.ctype, st.c.args.expect_json)
  IN IF v = "json" /\ ~r.json_ok THEN Raise(st, JSONDecodeError(Attempt(st.c)))
     ELSE Return(st, r.status, [variant |-> v, raw |-> r.raw],
                 [ctype |-> r.ctype, retry_after |-> r.retry_after])

\* time.sleep(delay), line 178: a negative delay raises at once
Sleep(st, delay) ==
  LET s1 == [st EXCEPT !.c.trace = Append(@, Ev("sleep", delay))]
  IN IF delay < 0 THEN Raise(s1, SleepValueError(Attempt(st.c)))
     ELSE [s1 EXCEPT !.c.pc = "sleep", !.c.delay = delay]

\* A loop that retries a 401 or a 429 whatever is left of the budget.
api_response_uncapped(st, r) ==
  LET s1 == [st EXCEPT !.c.trace = Append(@, Ev("resp", r.status)),
                       !.c.last_resp = Some(r), !.c.posted = <<>>, !.c.answer = None,
                       !.c.last_err = NoErr, !.c.why = "-"]
  IN IF r.status = 401
       THEN refresh_access_token([s1 EXCEPT !.c.last_resp = None], "401")
     ELSE IF r.status = 429
       THEN Sleep(s1, BackoffDelay(r.retry_after))
     ELSE Classify(s1, r)

\* One answer of the API to the attempt in flight, lines 163-194
api_response(st, r) ==
  LET s1 == [st EXCEPT !.c.trace = Append(@, Ev("resp", r.status)),
                       !.c.last_resp = Some(r), !.c.posted = <<>>, !.c.answer = None,
                       !.c.last_err = NoErr, !.c.why = "-"]
  IN IF r.status = 401 /\ s1.c.retries < max_retries
       THEN refresh_access_token([s1 EXCEPT !.c.last_resp = None], "401")
     ELSE IF r.status = 429 /\ s1.c.retries < max_retries
       THEN Sleep(s1, BackoffDelay(r.retry_after))
     ELSE Classify(s1, r)

\* A backoff that does not count against the retry budget.
after_sleep_uncounted(st) == LoopTop([st EXCEPT !.c.delay = 0, !.c.last_resp = None])

\* The end of time.sleep, lines 179-180
after_sleep(st) ==
  LoopTop([st EXCEPT !.c.retries = @ + 1, !.c.delay = 0, !.c.last_resp = None])

\* A transport-error handler that retries without counting the retry.
api_error_uncounted(st) ==
  LoopTop([st EXCEPT !.c.trace = Append(@, Ev("err", Attempt(st.c))),
                     !.c.last_resp = None, !.c.posted = <<>>, !.c.answer = None,
                     !.c.last_err = NoErr, !.c.why = "-",
                     !.c.last_exc = Some(RequestError(Attempt(st.c)))])

\* A transport-error handler that keeps the first error instead of the last.
api_error_keep_first(st) ==
  LoopTop([st EXCEPT !.c.trace = Append(@, Ev("err", Attempt(st.c))),
                     !.c.last_resp = None, !.c.posted = <<>>, !.c.answer = None,
                     !.c.last_err = NoErr, !.c.why = "-",
                     !.c.last_exc = IF @ = None THEN Some(RequestError(Attempt(st.c))) ELSE @,
                     !.c.retries = @ + 1])

\* httpx.RequestError on the attempt in flight, lines 196-198
api_error(st) ==
  LoopTop([st EXCEPT !.c.trace = Append(@, Ev("err", Attempt(st.c))),
                     !.c.last_resp = None, !.c.posted = <<>>, !.c.answer = None,
                     !.c.last_err = NoErr, !.c.why = "-",
                     !.c.last_exc = Some(RequestError(Attempt(st.c))),
                     !.c.retries = @ + 1])

\* ----------------------------------------------------------------- upload
\* upload_multipart up to its first network call, lines 328-335: the url is
\* built without a check of the path, and _auth_headers acquires a credential
\* when none is cached
upload_multipart(st, args) ==
  LET s1 == [st EXCEPT !.c.args = args, !.c.url = base_url \o args.path]
  IN IF Falsy(s1.tok) THEN refresh_access_token(s1, "upload") ELSE SendUpload(s1)

\* The answer to the POST, lines 336-338: r.json() for a JSON content type,
\* r.text otherwise, whatever the status
upload_response(st, r) ==
  LET s1 == [st EXCEPT !.c.trace = Append(@, Ev("resp", r.status)),
                       !.c.last_resp = Some(r)]
      v == IF Contains(r.ctype, "application/json") THEN "json" ELSE "text"
  IN IF v = "json" /\ ~r.json_ok THEN Raise(s1, JSONDecodeError(Attempt(s1.c)))
     ELSE Return(s1, r.status, [variant |-> v, raw |-> r.raw],
                 [ctype |-> r.ctype, retry_after |-> r.retry_after])

\* httpx.RequestError on the POST: nothing in upload_multipart catches it
upload_error(st) ==
  Raise([st EXCEPT !.c.trace = Append(@, Ev("err", Attempt(st.c)))],
        RequestError(Attempt(st.c)))

\* download_bytes_b64, lines 341-342: request("GET", path, params=params,
\* expect_json=False); the dict it returns holds the triple of request
download_bytes_b64(st, path, params) ==
  LET args == [NoArgs EXCEPT !.method = "GET", !.path = path, !.params = params,
                             !.expect_json = FALSE]
  IN request([st EXCEPT !.c.args = args], args)

\* ----------------------------------------------------- version fallback
\* Version strings: the defaults of __init__ (lines 31-32) and others
V146 == <<"1.46">>
V174 == <<"1.74">>
V150 == <<"1.50">>
V170 == <<"1.70">>
V180 == <<"1.80">>

\* A path built from the tail as it comes.
build_path_tail_as_given(service, tail, version) ==
  LET ver == IF version # None /\ version[1] # <<>> THEN version[1]
             ELSE IF service = "lp" THEN lp_version ELSE le_version
  IN <<"/", "d2l/api/", service, "/">> \o ver \o tail

\* build_path, lines 212-215
build_path(service, tail, version) ==
  LET ver == IF version # None /\ version[1] # <<>> THEN version[1]
             ELSE IF service = "lp" THEN lp_version ELSE le_version
      t == IF ~StartsWith(tail, "/") THEN <<"/">> \o tail ELSE tail
  IN <<"/", "d2l/api/", service, "/">> \o ver \o t

InSeq(x, seq) == \E i \in 1..Len(seq) : seq[i] = x

RECURSIVE Dedup(_, _)
\* Deduplicate while preserving order, lines 240-244
Dedup(candidates, uniq) ==
  IF candidates = <<>> THEN uniq
  ELSE Dedup(Tail(candidates),
             IF InSeq(Head(candidates), uniq) THEN uniq ELSE Append(uniq, Head(candidates)))

\* A candidate list that is the supplied one, without the default version.
VersionCandidates_as_supplied(service, versions) ==
  LET candidates == IF versions # None /\ versions[1] # <<>> THEN versions[1]
                    ELSE IF service = "lp" THEN lp_versions ELSE le_versions
  IN Dedup(candidates, <<>>)

\* A candidate list with the default version always moved to the front.
VersionCandidates_default_first(service, versions) ==
  LET candidates == IF versions # None /\ versions[1] # <<>> THEN versions[1]
                    ELSE IF service = "lp" THEN lp_versions ELSE le_versions
      preferred == IF service = "lp" THEN lp_version ELSE le_version
  IN Dedup(<<preferred>> \o candidates, <<>>)

\* The versions to try, lines 233-244
VersionCandidates(service, versions) ==
  LET candidates == IF versions # None /\ versions[1] # <<>> THEN versions[1]
                    ELSE IF service = "lp" THEN lp_versions ELSE le_versions
      preferred == IF service = "lp" THEN lp_version ELSE le_version
  IN Dedup(IF ~InSeq(preferred, candidates) THEN <<preferred>> \o candidates
           ELSE candidates, <<>>)

\* self.request(method, self.build_path(service, tail, version=ver), ...),
\* lines 248-255
RequestVersion(st, i) ==
  LET f == st.c.fargs
      args == [method |-> f.method,
               path |-> build_path(f.service, f.tail, Some(st.c.uniq[i])),
               params |-> f.params, json |-> f.json, headers |-> f.headers,
               expect_json |-> f.expect_json]
  IN request([st EXCEPT !.c.vidx = i, !.c.args = args, !.c.pc = "idle",
                        !.c.trace = <<>>, !.c.result = NoResult, !.c.last_resp = None,
                        !.c.vlog = Append(@, [ver |-> st.c.uniq[i], path |-> args.path,
                                              status |-> 0])],
             args)

\* _request_with_version_fallback up to its first request, lines 233-255; with
\* nothing to loop over control reaches `assert last is not None`, line 260
request_with_version_fallback(st, fargs) ==
  LET s1 == [st EXCEPT !.c.fargs = fargs, !.c.last = None, !.c.vlog = <<>>,
                       !.c.uniq = VersionCandidates(fargs.service, fargs.versions)]
  IN IF s1.c.uniq = <<>> THEN Raise(s1, AssertionErrorLast)
     ELSE RequestVersion(s1, 1)

\* A dispatcher that takes a 410 for a definitive result.
after_request_only_404(st) ==
  LET res == st.c.result
      s1 == [st EXCEPT !.c.last = Some(res),
                       !.c.vlog[Len(st.c.vlog)].status = res.status]
  IN IF res.kind = "raise" THEN [st EXCEPT !.c.returned = TRUE]
     ELSE IF res.status = 404 /\ st.c.vidx < Len(st.c.uniq)
       THEN RequestVersion(s1, st.c.vidx + 1)
     ELSE [s1 EXCEPT !.c.returned = TRUE, !.c.result = s1.c.last[1]]

\* A dispatcher that goes on to the next version after a 403 as well.
after_request_skip_403(st) ==
  LET res == st.c.result
      s1 == [st EXCEPT !.c.last = Some(res),
                       !.c.vlog[Len(st.c.vlog)].status = res.status]
  IN IF res.kind = "raise" THEN [st EXCEPT !.c.returned = TRUE]
     ELSE IF res.status \in {403, 404, 410} /\ st.c.vidx < Len(st.c.uniq)
       THEN RequestVersion(s1, st.c.vidx + 1)
     ELSE [s1 EXCEPT !.c.returned = TRUE, !.c.result = s1.c.last[1]]

\* A dispatcher that keeps the first result instead of the last.
after_request_return_first(st) ==
  LET res == st.c.result
      s1 == [st EXCEPT !.c.last = IF @ = None THEN Some(res) ELSE @,
                       !.c.vlog[Len(st.c.vlog)].status = res.status]
  IN IF res.kind = "raise" THEN [st EXCEPT !.c.returned = TRUE]
     ELSE IF res.status \in {404, 410} /\ st.c.vidx < Len(st.c.uniq)
       THEN RequestVersion(s1, st.c.vidx + 1)
     ELSE [s1 EXCEPT !.c.returned = TRUE, !.c.result = s1.c.last[1]]

\* The dispatcher once a request has returned or raised, lines 256-261
after_request(st) ==
  LET res == st.c.result
      s1 == [st EXCEPT !.c.last = Some(res),
                       !.c.vlog[Len(st.c.vlog)].status = res.status]
  IN IF res.kind = "raise" THEN [st EXCEPT !.c.returned = TRUE]
     ELSE IF res.status \in {404, 410} /\ st.c.vidx < Len(st.c.uniq)
       THEN RequestVersion(s1, st.c.vidx + 1)
     ELSE [s1 EXCEPT !.c.returned = TRUE, !.c.result = s1.c.last[1]]

\* ------------------------------------------------------------- pagination
\* The JSON documents a page can be, by name.  get(key) answers None for an
\* absent key and for a null value alike, so "null" stands for both; "" is the
\* empty string.  A document that is not an object has kind "list".
Pages == {"p12b1", "p3", "p4next", "p5low", "pnone", "plist"}

Json(raw) ==
  CASE raw = "p12b1" -> [kind |-> "dict", Items |-> <<1, 2>>, items |-> <<>>,
                         Bookmark |-> "b1", Next |-> "null", bookmark |-> "null"]
    [] raw = "p3" -> [kind |-> "dict", Items |-> <<3>>, items |-> <<>>,
                      Bookmark |-> "null", Next |-> "null", bookmark |-> "null"]
    [] raw = "p4next" -> [kind |-> "dict", Items |-> <<>>, items |-> <<4>>,
                          Bookmark |-> "", Next |-> "b2", bookmark |-> "b3"]
    [] raw = "p5low" -> [kind |-> "dict", Items |-> <<5>>, items |-> <<6>>,
                         Bookmark |-> "null", Next |-> "", bookmark |-> "b3"]
    [] raw = "pnone" -> [kind |-> "dict", Items |-> <<>>, items |-> <<>>,
                         Bookmark |-> "null", Next |-> "null", bookmark |-> ""]
    [] OTHER -> [kind |-> "list", Items |-> <<>>, items |-> <<>>,
                 Bookmark |-> "null", Next |-> "null", bookmark |-> "null"]

\* Python truth of a cursor value
Truthy(v) == v \notin {"null", ""}

\* A choice that stops at the first key that is present, empty or not.
Or3_first_present(a, b, c) == IF a # "null" THEN a ELSE IF b # "null" THEN b ELSE c

\* a or b or c
Or3(a, b, c) == IF Truthy(a) THEN a ELSE IF Truthy(b) THEN b ELSE c

\* isinstance(data, dict), line 309
IsDict(body) == body.variant = "json" /\ Json(body.raw).kind = "dict"

\* dict.update
Update(f, g) == [k \in DOMAIN f \cup DOMAIN g |-> IF k \in DOMAIN g THEN g[k] ELSE f[k]]

\* base_params, lines 300-302
BaseParams(pargs) ==
  IF pargs.params # None THEN Update([pageSize |-> pargs.page_size], pargs.params[1])
  ELSE [pageSize |-> pargs.page_size]

\* return {"status": 200, "items": merged, ...}, line 318
PaginateDone(st) ==
  [st EXCEPT !.c.pc = "done", !.c.returned = TRUE,
             !.c.out = [status |-> 200, items |-> st.c.merged,
                        bookmarks |-> st.c.bookmarks,
                        last_bookmark |-> st.c.bookmark]]

\* A turn of the loop that keeps the caller's bookmark when it holds one.
RequestPage_caller_bookmark(st) ==
  LET base == BaseParams(st.c.pargs)
      prms == IF Truthy(st.c.bookmark) /\ "bookmark" \notin DOMAIN base
                THEN Update(base, [bookmark |-> st.c.bookmark])
                ELSE base
      args == [method |-> "GET", path |-> st.c.pargs.path, params |-> Some(prms),
               json |-> None, headers |-> None, expect_json |-> TRUE]
  IN request([st EXCEPT !.c.npages = @ + 1, !.c.args = args, !.c.pc = "idle",
                        !.c.trace = <<>>, !.c.result = NoResult, !.c.last_resp = None,
                        !.c.plog = Append(@, [path |-> args.path, params |-> prms,
                                              status |-> 0, body |-> NoBody])],
             args)

\* One turn of the loop up to its request, lines 304-308
RequestPage(st) ==
  LET prms == IF Truthy(st.c.bookmark)
                THEN Update(BaseParams(st.c.pargs), [bookmark |-> st.c.bookmark])
                ELSE BaseParams(st.c.pargs)
      args == [method |-> "GET", path |-> st.c.pargs.path, params |-> Some(prms),
               json |-> None, headers |-> None, expect_json |-> TRUE]
  IN request([st EXCEPT !.c.npages = @ + 1, !.c.args = args, !.c.pc = "idle",
                        !.c.trace = <<>>, !.c.result = NoResult, !.c.last_resp = None,
                        !.c.plog = Append(@, [path |-> args.path, params |-> prms,
                                              status |-> 0, body |-> NoBody])],
             args)

\* for _ in range(max_pages), line 304
PageLoop(st) ==
  IF st.c.npages < st.c.pargs.max_pages THEN RequestPage(st) ELSE PaginateDone(st)

\* paginate_bookmark up to its first request, lines 298-308
paginate_bookmark(st, pargs) ==
  PageLoop([st EXCEPT !.c.pargs = pargs, !.c.npages = 0, !.c.merged = <<>>,
                      !.c.bookmarks = <<>>, !.c.bookmark = "null", !.c.plog = <<>>,
                      !.c.out = NoOut])

\* A walk that goes on after a page that failed.
after_page_no_early_return(st) ==
  LET res == st.c.result
      doc == Json(res.body.raw)
      s1 == [st EXCEPT !.c.plog[Len(st.c.plog)].status = res.status,
                       !.c.plog[Len(st.c.plog)].body = res.body]
      bookmark == Or3(doc.Bookmark, doc.Next, doc.bookmark)
      s2 == [s1 EXCEPT !.c.merged = @ \o (IF doc.Items # <<>> THEN doc.Items ELSE doc.items),
                       !.c.bookmark = bookmark,
                       !.c.bookmarks = IF Truthy(bookmark) THEN Append(@, bookmark) ELSE @]
  IN IF res.kind = "raise" THEN [st EXCEPT !.c.returned = TRUE]
     ELSE IF ~Truthy(bookmark) THEN PaginateDone(s2)
     ELSE PageLoop(s2)

\* A walk that hands back what it gathered together with the failing status.
after_page_partial(st) ==
  LET res == st.c.result
      doc == Json(res.body.raw)
      s1 == [st EXCEPT !.c.plog[Len(st.c.plog)].status = res.status,
                       !.c.plog[Len(st.c.plog)].body = res.body]
      bookmark == Or3(doc.Bookmark, doc.Next, doc.bookmark)
      s2 == [s1 EXCEPT !.c.merged = @ \o (IF doc.Items # <<>> THEN doc.Items ELSE doc.items),
                       !.c.bookmark = bookmark,
                       !.c.bookmarks = IF Truthy(bookmark) THEN Append(@, bookmark) ELSE @]
  IN IF res.kind = "raise" THEN [st EXCEPT !.c.returned = TRUE]
     ELSE IF res.status >= 400 \/ ~IsDict(res.body)
       THEN [s1 EXCEPT !.c.returned = TRUE,
                       !.c.out = [status |-> res.status, data |-> res.body,
                                  items |-> st.c.merged]]
     ELSE IF ~Truthy(bookmark) THEN PaginateDone(s2)
     ELSE PageLoop(s2)

\* A walk that keeps the cursors but not the items of the pages.
after_page_items_dropped(st) ==
  LET res == st.c.result
      doc == Json(res.body.raw)
      s1 == [st EXCEPT !.c.plog[Len(st.c.plog)].status = res.status,
                       !.c.plog[Len(st.c.plog)].body = res.body]
      bookmark == Or3(doc.Bookmark, doc.Next, doc.bookmark)
      s2 == [s1 EXCEPT !.c.merged = IF doc.Items # <<>> THEN doc.Items ELSE doc.items,
                       !.c.bookmark = bookmark,
                       !.c.bookmarks = IF Truthy(bookmark) THEN Append(@, bookmark) ELSE @]
  IN IF res.kind = "raise" THEN [st EXCEPT !.c.returned = TRUE]
     ELSE IF res.status >= 400 \/ ~IsDict(res.body)
       THEN [s1 EXCEPT !.c.returned = TRUE,
                       !.c.out = [status |-> res.status, data |-> res.body]]
     ELSE IF ~Truthy(bookmark) THEN PaginateDone(s2)
     ELSE PageLoop(s2)

\* A walk that does not stop at an empty cursor.
after_page_no_break(st) ==
  LET res == st.c.result
      doc == Json(res.body.raw)
      s1 == [st EXCEPT !.c.plog[Len(st.c.plog)].status = res.status,
                       !.c.plog[Len(st.c.plog)].body = res.body]
      bookmark == Or3(doc.Bookmark, doc.Next, doc.bookmark)
      s2 == [s1 EXCEPT !.c.merged = @ \o (IF doc.Items # <<>> THEN doc.Items ELSE doc.items),
                       !.c.bookmark = bookmark,
                       !.c.bookmarks = IF Truthy(bookmark) THEN Append(@, bookmark) ELSE @]
  IN IF res.kind = "raise" THEN [st EXCEPT !.c.returned = TRUE]
     ELSE IF res.status >= 400 \/ ~IsDict(res.body)
       THEN [s1 EXCEPT !.c.returned = TRUE,
                       !.c.out = [status |-> res.status, data |-> res.body]]
     ELSE PageLoop(s2)

\* The rest of a turn of the loop once its request has ended, lines 309-318:
\* an exception of the request leaves paginate_bookmark as it is
after_page(st) ==
  LET res == st.c.result
      doc == Json(res.body.raw)
      s1 == [st EXCEPT !.c.plog[Len(st.c.plog)].status = res.status,
                       !.c.plog[Len(st.c.plog)].body = res.body]
      bookmark == Or3(doc.Bookmark, doc.Next, doc.bookmark)
      s2 == [s1 EXCEPT !.c.merged = @ \o (IF doc.Items # <<>> THEN doc.Items ELSE doc.items),
                       !.c.bookmark = bookmark,
                       !.c.bookmarks = IF Truthy(bookmark) THEN Append(@, bookmark) ELSE @]
  IN IF res.kind = "raise" THEN [st EXCEPT !.c.returned = TRUE]
     ELSE IF res.status >= 400 \/ ~IsDict(res.body)
       THEN [s1 EXCEPT !.c.returned = TRUE,
                       !.c.out = [status |-> res.status, data |-> res.body]]
     ELSE IF ~Truthy(bookmark) THEN PaginateDone(s2)
     ELSE PageLoop(s2)

\* --------------------------------------------------------------- wrappers
\* What isinstance tells the kinds of data apart by
DataKind(body) == IF body.variant = "json" THEN Json(body.raw).kind ELSE "str"
AnyData == {"dict", "list", "str"}

\* The wrappers built on lp and le, lines 346-537, called with org unit 6606,
\* user 7 and the default page sizes: the helper and the method they call,
\* the tail, params and json they pass, and the kinds of data their assert
\* lets through (AnyData where there is no assert)
W(name, service, method, tail, params, json, accepts) ==
  [name |-> name, service |-> service, method |-> method, tail |-> tail,
   params |-> params, json |-> json, accepts |-> accepts]

Wrappers ==
  {W("whoami", "lp", "GET", <<"/", "users/whoami">>, None, None, {"dict"}),
   W("list_courses", "lp", "GET", <<"/", "courses/">>, Some([pageSize |-> 10]), None,
     {"dict"}),
   W("create_announcement", "le", "POST", <<"/", "6606", "/news/">>, None,
     Some("payload"), {"dict"}),
   W("list_org_units", "lp", "GET", <<"/", "orgstructure/">>, Some([pageSize |-> 100]),
     None, {"dict"}),
   W("list_users", "lp", "GET", <<"/", "users/">>, Some([pageSize |-> 100]), None,
     {"dict"}),
   W("get_user", "lp", "GET", <<"/", "users/", "7">>, None, None, {"dict"}),
   W("my_enrollments", "lp", "GET", <<"/", "enrollments/myenrollments/">>,
     Some([pageSize |-> 100]), None, {"dict"}),
   W("list_announcements", "le", "GET", <<"/", "6606", "/news/">>,
     Some([pageSize |-> 100]), None, {"dict"}),
   W("get_content_toc", "le", "GET", <<"/", "6606", "/content/toc">>, None, None,
     {"dict"}),
   W("list_discussion_forums", "le", "GET", <<"/", "6606", "/discussions/forums/">>,
     None, None, {"list", "dict"}),
   W("list_discussion_topics", "le", "GET", <<"/", "6606", "/discussions/topics/">>,
     None, None, {"list", "dict"}),
   W("list_quizzes", "le", "GET", <<"/", "6606", "/quizzes/quizzes/">>,
     Some([pageSize |-> 100]), None, {"dict"}),
   W("get_quiz", "le", "GET", <<"/", "6606", "/quizzes/quizzes/", "3">>, None, None,
     {"dict"}),
   W("get_content_topic", "le", "GET", <<"/", "6606", "/content/topics/", "3">>, None,
     None, {"dict"}),
   W("list_grade_items", "le", "GET", <<"/", "6606", "/grades/">>, None, None, AnyData),
   W("get_user_grades", "le", "GET", <<"/", "6606", "/grades/values/user/", "7", "/">>,
     None, None, AnyData),
   W("create_discussion_forum", "le", "POST", <<"/", "6606", "/discussions/forums/">>,
     None, Some("payload"), {"dict", "list", "str"}),
   W("create_discussion_topic", "le", "POST", <<"/", "6606", "/discussions/topics/">>,
     None, Some("payload"), {"dict", "list", "str"}),
   W("create_grade_item", "le", "POST", <<"/", "6606", "/grades/">>, None,
     Some("payload"), AnyData)}
     \cup
  {W("upsert_user_grade_value", "le", m, <<"/", "6606", "/grades/values/user/", "7", "/">>,
     None, Some("payload"), AnyData) : m \in {"PUT", "post", "PATCH"}}

\* The exceptions of the wrappers
WrapperRuntimeError(name, code, data) ==
  [kind |-> "raise", type |-> "RuntimeError",
   msg |-> <<name, " failed: ", code, " ", data>>, value |-> NoBody]
WrapperValueError ==
  [kind |-> "raise", type |-> "ValueError: method must be PUT or POST", msg |-> <<>>,
   value |-> NoBody]
WrapperAssertionError ==
  [kind |-> "raise", type |-> "AssertionError", msg |-> <<>>, value |-> NoBody]

\* A wrapper up to its await of lp or le; upsert_user_grade_value checks its
\* method first, lines 531-534
CallWrapped(st, w) ==
  LET method == Upper(w.method)
      s1 == [st EXCEPT !.c.wrapper = w, !.c.wout = NoWout, !.c.op = w.service]
  IN IF w.name = "upsert_user_grade_value" /\ method \notin {"PUT", "POST"}
       THEN [s1 EXCEPT !.c.pc = "done", !.c.returned = TRUE, !.c.wout = WrapperValueError]
     ELSE request_with_version_fallback(
            s1, [service |-> w.service, method |-> method, tail |-> w.tail,
                 versions |-> None, params |-> w.params, json |-> w.json,
                 headers |-> None, expect_json |-> TRUE])

\* A wrapper that fails on the first version's status when that is an error.
after_dispatch_first_status(st) ==
  LET res == st.c.result
      w == st.c.wrapper
      code == IF st.c.vlog # <<>> /\ st.c.vlog[1].status >= 400
                THEN st.c.vlog[1].status ELSE res.status
  IN IF res.kind = "raise"
       THEN [st EXCEPT !.c.wout = [kind |-> "raise", type |-> res.exc.type,
                                   msg |-> <<>>, value |-> NoBody]]
     ELSE IF code >= 400
       THEN [st EXCEPT !.c.wout = WrapperRuntimeError(w.name, code, res.body)]
     ELSE IF DataKind(res.body) \notin w.accepts
       THEN [st EXCEPT !.c.wout = WrapperAssertionError]
     ELSE [st EXCEPT !.c.wout = [kind |-> "return", type |-> "-", msg |-> <<>>,
                                 value |-> res.body]]

\* A wrapper that hands back whatever the dispatcher returned.
after_dispatch_unchecked(st) ==
  LET res == st.c.result
  IN IF res.kind = "raise"
       THEN [st EXCEPT !.c.wout = [kind |-> "raise", type |-> res.exc.type,
                                   msg |-> <<>>, value |-> NoBody]]
     ELSE [st EXCEPT !.c.wout = [kind |-> "return", type |-> "-", msg |-> <<>>,
                                 value |-> res.body]]

\* The rest of a wrapper once lp or le has ended, e.g. lines 348-351: an
\* exception of the dispatcher leaves the wrapper as it is
after_dispatch(st) ==
  LET res == st.c.result
      w == st.c.wrapper
  IN IF res.kind = "raise"
       THEN [st EXCEPT !.c.wout = [kind |-> "raise", type |-> res.exc.type,
                                   msg |-> <<>>, value |-> NoBody]]
     ELSE IF res.status >= 400
       THEN [st EXCEPT !.c.wout = WrapperRuntimeError(w.name, res.status, res.body)]
     ELSE IF DataKind(res.body) \notin w.accepts
       THEN [st EXCEPT !.c.wout = WrapperAssertionError]
     ELSE [st EXCEPT !.c.wout = [kind |-> "return", type |-> "-", msg |-> <<>>,
                                 value |-> res.body]]

\* Control goes back to whoever awaits the request that has just ended, and
\* from the dispatcher to the wrapper that awaits it
Unwind(st) ==
  LET s1 == IF st.c.pc = "done" /\ ~st.c.returned
              THEN IF st.c.op \in {"lp", "le"} THEN after_request(st)
                   ELSE IF st.c.op = "paginate" THEN after_page(st)
                   ELSE [st EXCEPT !.c.returned = TRUE]
              ELSE st
  IN IF s1.c.pc = "done" /\ s1.c.returned /\ s1.c.wrapper # NoWrapper
          /\ s1.c.wout = NoWout
       THEN after_dispatch(s1)
     ELSE s1

------------------------------------------------------------------------------
\* ---------------------------------------------------------------- actions
\* The session as a coroutine k sees it: the fields of self and its own frame
StOf(k) ==
  [tok |-> access_token, rt |-> refresh_token, cid |-> client_id,
   csec |-> client_secret, c |-> k]
St(c) == StOf(call[c])

\* time.sleep blocks the thread of the event loop: while a caller sleeps no
\* other coroutine runs.
Runnable(c) == \A d \in Callers \ {c} : call[d].pc # "sleep"

Commit(c, st) ==
  /\ access_token' = Unwind(st).tok
  /\ refresh_token' = Unwind(st).rt
  /\ client_id' = Unwind(st).cid
  /\ client_secret' = Unwind(st).csec
  /\ call' = [call EXCEPT ![c] = Unwind(st).c]

\* BrightspaceClient.__init__, lines 36-46
Init ==
  /\ access_token = NoToken
  /\ refresh_token = <<"rt0">>
  /\ client_id = <<"id0">>
  /\ client_secret = <<"secret0">>
  /\ max_retries \in 0..MaxRetries
  /\ token_url_env \in {<<>>, <<"https://login.example.com/token">>}
  /\ lp_version = V146
  /\ le_version = V174
  /\ lp_versions = <<V146>>
  /\ le_versions = <<V174>>
  /\ empties = 0
  /\ call = [c \in Callers |-> IdleCall]
  /\ locks = NoLocks
  /\ procs = [p \in Procs |-> NoProc]

\* A caller invokes request(method, path, params=, json=, headers=, expect_json=)
CallRequest(c) ==
  /\ call[c].pc \in {"idle", "done"}
  /\ Runnable(c)
  /\ \E args \in RequestArgs :
       Commit(c, request(StOf([IdleCall EXCEPT !.op = "request", !.args = args]),
                         args))
  /\ UNCHANGED <<config, empties, launch>>

\* The API answers the attempt in flight with one of the answers R
ApiResponseFrom(c, R) ==
  /\ call[c].pc = "http"
  /\ Runnable(c)
  /\ \E r \in R : Commit(c, api_response(St(c), r))
  /\ UNCHANGED <<config, empties, launch>>

ApiResponse(c) == ApiResponseFrom(c, ApiResponses)

\* The attempt in flight fails in the transport
ApiTransportError(c) ==
  /\ call[c].pc = "http"
  /\ Runnable(c)
  /\ Commit(c, api_error(St(c)))
  /\ UNCHANGED <<config, empties, launch>>

\* time.sleep returns
Wake(c) ==
  /\ call[c].pc = "sleep"
  /\ Commit(c, after_sleep(St(c)))
  /\ UNCHANGED <<config, empties, launch>>

\* The candidate being posted answers; an access_token it holds is a token
\* other than the cached one, or the empty string
TokenResponseFrom(c, A) ==
  /\ call[c].pc = "post"
  /\ Runnable(c)
  /\ \E a \in A : \E tok \in {FreshToken(access_token), EmptyToken} :
       LET adopts == a.kind = "response" /\ a.status = 200 /\ TokenBody(a) = "token" IN
       /\ (tok = EmptyToken => adopts /\ empties < MaxEmpty)
       /\ Commit(c, token_response(St(c), a, tok))
       /\ empties' = IF tok = EmptyToken THEN empties + 1 ELSE empties
  /\ UNCHANGED <<config, launch>>

TokenResponse(c) == TokenResponseFrom(c, TokenAnswers)

Step(c) ==
  \/ CallRequest(c)
  \/ ApiResponse(c)
  \/ ApiTransportError(c)
  \/ Wake(c)
  \/ TokenResponse(c)

\* One caller on the session, calling request
Next == Step("A")

Spec == Init /\ [][Next]_vars

------------------------------------------------------------------------------
\* ------------------------------------- the version dispatcher on a session
\* The arguments of the calls to lp and le that the model explores: without
\* versions, with an empty list of versions, and with a list that holds a
\* duplicate and le's default at a later position
FallbackArgs ==
  {[service |-> sv.s, method |-> "get", tail |-> <<"/", "users/whoami">>,
    versions |-> sv.v, params |-> None, json |-> None, headers |-> None,
    expect_json |-> TRUE] :
     sv \in {[s |-> "lp", v |-> None], [s |-> "lp", v |-> Some(<<>>)],
             [s |-> "le", v |-> None], [s |-> "le", v |-> Some(<<V170, V174, V170>>)]}}

\* The candidate lists of the sessions that the model explores: the defaults
\* alone, lists that hold the default at a later position, an empty list and a
\* list with a duplicate and without the default
SessionVersionLists ==
  {[lp |-> <<V146>>, le |-> <<V174>>],
   [lp |-> <<V150, V146>>, le |-> <<V180, V174, V170>>],
   [lp |-> <<V146>>, le |-> <<>>],
   [lp |-> <<V150, V146>>, le |-> <<V180, V180, V170>>]}

\* A session whose candidate lists come from BS_LP_VERSION_CANDIDATES and
\* BS_LE_VERSION_CANDIDATES, or are assigned as the unit test does
InitFallback ==
  /\ access_token = NoToken
  /\ refresh_token = <<"rt0">>
  /\ client_id = <<"id0">>
  /\ client_secret = <<"secret0">>
  /\ max_retries \in 0..FallbackRetries
  /\ token_url_env = <<>>
  /\ lp_version = V146
  /\ le_version = V174
  /\ \E lists \in SessionVersionLists :
       lp_versions = lists.lp /\ le_versions = lists.le
  /\ empties = 0
  /\ call = [c \in Callers |-> IdleCall]
  /\ locks = NoLocks
  /\ procs = [p \in Procs |-> NoProc]

\* A caller invokes lp(...) or le(...)
CallFallback(c) ==
  /\ call[c].pc \in {"idle", "done"}
  /\ Runnable(c)
  /\ \E fargs \in FallbackArgs :
       Commit(c, request_with_version_fallback(
                   StOf([IdleCall EXCEPT !.op = fargs.service]),
                   fargs))
  /\ UNCHANGED <<config, empties, launch>>

\* The API answers a request of the dispatcher
VersionResponse(c) == ApiResponseFrom(c, VersionResponses)

NextFallback ==
  \/ CallFallback("A")
  \/ VersionResponse("A")
  \/ ApiTransportError("A")
  \/ Wake("A")
  \/ TokenResponse("A")

SpecFallback == InitFallback /\ [][NextFallback]_vars

\* ------------------------------------------------- the pagination walker
\* What the API answers to a page request: a JSON document of Pages, a text
\* body, or a document with an error status
PageResponses ==
  {r \in [status : {200, 429, 500}, ctype : {JsonType, TextType}, json_ok : {TRUE},
          retry_after : {None}, raw : Pages] :
     /\ (r.ctype = TextType <=> r.status = 429 \/ (r.status = 200 /\ r.raw = "plist"))
     /\ (r.status # 200 => r.raw = "p12b1")}
     \cup
  {[status |-> 200, ctype |-> JsonType, json_ok |-> TRUE, retry_after |-> None,
    raw |-> "plist"]}

\* The calls of paginate_bookmark: the path of the unit test, max_pages up to
\* MaxPages, and params that also hold the walker's own keys
PaginateArgs ==
  {[path |-> PathAbs, page_size |-> 2, max_pages |-> m, params |-> p] :
     m \in 0..MaxPages,
     p \in {None, Some([orgUnitId |-> "1", bookmark |-> "b0"])}}

InitPaginate ==
  /\ access_token = NoToken
  /\ refresh_token = <<"rt0">>
  /\ client_id = <<"id0">>
  /\ client_secret = <<"secret0">>
  /\ max_retries \in 0..PaginateRetries
  /\ token_url_env = <<>>
  /\ lp_version = V146
  /\ le_version = V174
  /\ lp_versions = <<V146>>
  /\ le_versions = <<V174>>
  /\ empties = 0
  /\ call = [c \in Callers |-> IdleCall]
  /\ locks = NoLocks
  /\ procs = [p \in Procs |-> NoProc]

\* A caller invokes paginate_bookmark(path, page_size=..., max_pages=..., params=...)
CallPaginate(c) ==
  /\ call[c].pc \in {"idle", "done"}
  /\ Runnable(c)
  /\ \E pargs \in PaginateArgs :
       Commit(c, paginate_bookmark(StOf([IdleCall EXCEPT !.op = "paginate"]),
                                   pargs))
  /\ UNCHANGED <<config, empties, launch>>

\* The API answers a page request
PageResponse(c) == ApiResponseFrom(c, PageResponses)

NextPaginate ==
  \/ CallPaginate("A")
  \/ PageResponse("A")
  \/ ApiTransportError("A")
  \/ Wake("A")
  \/ TokenResponse("A")

SpecPaginate == InitPaginate /\ [][NextPaginate]_vars

\* ------------------------------------------------ the convenience wrappers
\* What the API answers to a request of a wrapper: a JSON object, a JSON list
\* or a text body with status 200, and error statuses with a JSON or text body
WrapperResponses ==
  {r \in [status : {200, 404, 410, 500}, ctype : {JsonType, TextType}, json_ok : {TRUE},
          retry_after : {None}, raw : {"p3", "plist"}] :
     r.ctype = TextType => r.raw = "plist" /\ r.status \in {200, 500}}

\* A session with two candidate versions for each family
InitWrappers ==
  /\ access_token = NoToken
  /\ refresh_token = <<"rt0">>
  /\ client_id = <<"id0">>
  /\ client_secret = <<"secret0">>
  /\ max_retries \in 0..FallbackRetries
  /\ token_url_env = <<>>
  /\ lp_version = V146
  /\ le_version = V174
  /\ lp_versions = <<V150, V146>>
  /\ le_versions = <<V174, V170>>
  /\ empties = 0
  /\ call = [c \in Callers |-> IdleCall]
  /\ locks = NoLocks
  /\ procs = [p \in Procs |-> NoProc]

\* A caller invokes a wrapper
CallWrapper(c) ==
  /\ call[c].pc \in {"idle", "done"}
  /\ Runnable(c)
  /\ \E w \in Wrappers :
       Commit(c, CallWrapped(StOf(IdleCall), w))
  /\ UNCHANGED <<config, empties, launch>>

\* The API answers a request of a wrapper
WrapperResponse(c) == ApiResponseFrom(c, WrapperResponses)

NextWrappers ==
  \/ CallWrapper("A")
  \/ WrapperResponse("A")
  \/ ApiTransportError("A")
  \/ TokenResponse("A")

SpecWrappers == InitWrappers /\ [][NextWrappers]_vars

\* ------------------------------------------------------------- build_path
\* The arguments of the calls to build_path: the two families and another
\* service root, tails with and without the leading "/", the empty tail, and a
\* version that is given, is None, or is the empty string
BuildServices == {"lp", "le", "bas"}
BuildTails == {<<"/", "users/whoami">>, <<"users/whoami">>, <<"/", "content/toc">>,
               <<"content/toc">>, <<>>}
BuildVersions == {None, Some(<<>>), Some(V146), Some(V180)}

\* Sessions constructed with lp_version and le_version of the unit test or
\* with others
InitBuildPath ==
  /\ access_token = NoToken
  /\ refresh_token = <<"rt0">>
  /\ client_id = <<"id0">>
  /\ client_secret = <<"secret0">>
  /\ max_retries = 0
  /\ token_url_env = <<>>
  /\ lp_version \in {V146, V150}
  /\ le_version \in {V174, V170}
  /\ lp_versions = <<lp_version>>
  /\ le_versions = <<le_version>>
  /\ empties = 0
  /\ call = [c \in Callers |-> IdleCall]
  /\ locks = NoLocks
  /\ procs = [p \in Procs |-> NoProc]

\* A caller invokes build_path(service, tail, version=version)
BuildPath(c) ==
  /\ \E service \in BuildServices, tail \in BuildTails, version \in BuildVersions :
       call' = [call EXCEPT ![c] = [IdleCall EXCEPT
                  !.op = "build_path",
                  !.built = [service |-> service, tail |-> tail, version |-> version,
                             path |-> build_path(service, tail, version)]]]
  /\ UNCHANGED <<access_token, creds, config, empties, launch>>

NextBuildPath == BuildPath("A")

SpecBuildPath == InitBuildPath /\ [][NextBuildPath]_vars

\* ------------------------------------------- two callers on one session
\* What the API answers when two callers share the session: a JSON body with
\* status 200, or 429 with or without Retry-After
ConcurrentResponses ==
  {r \in ApiResponses :
     /\ r.status \in {200, 429}
     /\ r.raw = "a" /\ r.json_ok /\ r.ctype \in {JsonType, TextType}
     /\ r.retry_after \in {None, <<"2">>}}

\* The token endpoint grants a token or rejects the refresh token
ConcurrentTokenAnswers ==
  {a \in TokenAnswers :
     a.kind = "response" /\ a.status \in {200, 400} /\ a.ctype = JsonType
       /\ a.content \in {"token", "object"} /\ (a.status = 200 => a.content = "token")}

\* A session that backs off at least once
InitConcurrent ==
  /\ access_token = NoToken
  /\ refresh_token = <<"rt0">>
  /\ client_id = <<"id0">>
  /\ client_secret = <<"secret0">>
  /\ max_retries \in 1..MaxRetries
  /\ token_url_env = <<>>
  /\ lp_version = V146
  /\ le_version = V174
  /\ lp_versions = <<V146>>
  /\ le_versions = <<V174>>
  /\ empties = 0
  /\ call = [c \in Callers |-> IdleCall]
  /\ locks = NoLocks
  /\ procs = [p \in Procs |-> NoProc]

\* A caller invokes request("get", path)
CallConcurrent(c) ==
  /\ call[c].pc \in {"idle", "done"}
  /\ Runnable(c)
  /\ LET args == [NoArgs EXCEPT !.method = "get", !.path = PathAbs] IN
       Commit(c, request(StOf([IdleCall EXCEPT !.op = "request", !.args = args]),
                         args))
  /\ UNCHANGED <<config, empties, launch>>

ConcurrentResponse(c) == ApiResponseFrom(c, ConcurrentResponses)

ConcurrentTokenResponse(c) == TokenResponseFrom(c, ConcurrentTokenAnswers)

\* The event loop runs one of the callers up to its next await
NextConcurrent ==
  \E c \in Callers :
    \/ CallConcurrent(c)
    \/ ConcurrentResponse(c)
    \/ Wake(c)
    \/ ConcurrentTokenResponse(c)

SpecConcurrent == InitConcurrent /\ [][NextConcurrent]_vars

\* ------------------------------------- callers racing on the credential
\* What the API answers to callers that race: 200, or 401 for a credential it
\* no longer accepts
RaceResponses ==
  {r \in ApiResponses :
     r.status \in {200, 401} /\ r.raw = "a" /\ r.json_ok /\ r.ctype = JsonType}

InitRace ==
  /\ access_token = NoToken
  /\ refresh_token = <<"rt0">>
  /\ client_id = <<"id0">>
  /\ client_secret = <<"secret0">>
  /\ max_retries \in 0..RaceRetries
  /\ token_url_env = <<>>
  /\ lp_version = V146
  /\ le_version = V174
  /\ lp_versions = <<V146>>
  /\ le_versions = <<V174>>
  /\ empties = 0
  /\ call = [c \in Callers |-> IdleCall]
  /\ locks = NoLocks
  /\ procs = [p \in Procs |-> NoProc]

RaceResponse(c) == ApiResponseFrom(c, RaceResponses)

\* The event loop runs one of the callers up to its next await
NextRace ==
  \E c \in Callers :
    \/ CallConcurrent(c)
    \/ RaceResponse(c)
    \/ ConcurrentTokenResponse(c)

SpecRace == InitRace /\ [][NextRace]_vars

\* ------------------------------------------- callers with their own headers
\* Calls of request that differ in the headers argument only: none, an empty
\* map, a custom header, and a map with its own Authorization
HeaderArgs ==
  {[NoArgs EXCEPT !.method = "get", !.path = PathAbs, !.headers = h] :
     h \in {None, Some(<<>>), Some(TraceHeader), Some(OwnAuthHeaders)}}

\* What the API answers to them: a success and the statuses that are retried
HeaderResponses ==
  {r \in ApiResponses :
     /\ r.status \in {200, 401, 429} /\ r.raw = "a" /\ r.json_ok
     /\ r.retry_after = None /\ (r.status = 200 => r.ctype = JsonType)}

InitHeaders ==
  /\ access_token = NoToken
  /\ refresh_token = <<"rt0">>
  /\ client_id = <<"id0">>
  /\ client_secret = <<"secret0">>
  /\ max_retries \in 0..HeaderRetries
  /\ token_url_env = <<>>
  /\ lp_version = V146
  /\ le_version = V174
  /\ lp_versions = <<V146>>
  /\ le_versions = <<V174>>
  /\ empties = 0
  /\ call = [c \in Callers |-> IdleCall]
  /\ locks = NoLocks
  /\ procs = [p \in Procs |-> NoProc]

\* A caller invokes request("get", path, headers=...)
CallHeaders(c) ==
  /\ call[c].pc \in {"idle", "done"}
  /\ Runnable(c)
  /\ \E args \in HeaderArgs :
       Commit(c, request(StOf([IdleCall EXCEPT !.op = "request", !.args = args]),
                         args))
  /\ UNCHANGED <<config, empties, launch>>

HeadersResponse(c) == ApiResponseFrom(c, HeaderResponses)

NextHeaders ==
  \/ CallHeaders("A")
  \/ HeadersResponse("A")
  \/ ApiTransportError("A")
  \/ Wake("A")
  \/ ConcurrentTokenResponse("A")

SpecHeaders == InitHeaders /\ [][NextHeaders]_vars

\* ------------------------------------------------ the token endpoints alone
\* BS_TOKEN_URL: unset, an endpoint of its own, or one of the conventional
\* endpoints given again
TokenUrlOverrides ==
  {<<>>, <<"https://login.example.com/token">>,
   RStrip(base_url, "/") \o <<"/d2l/oauth2/token">>}

\* What the API answers while the token endpoints are under study
RefreshResponses ==
  {r \in ApiResponses :
     /\ r.status \in {200, 401} /\ r.raw = "a" /\ r.json_ok /\ r.ctype = JsonType
     /\ r.retry_after = None}

InitRefresh ==
  /\ access_token = NoToken
  /\ refresh_token = <<"rt0">>
  /\ client_id = <<"id0">>
  /\ client_secret = <<"secret0">>
  /\ max_retries \in 0..RefreshRetries
  /\ token_url_env \in TokenUrlOverrides
  /\ lp_version = V146
  /\ le_version = V174
  /\ lp_versions = <<V146>>
  /\ le_versions = <<V174>>
  /\ empties = 0
  /\ call = [c \in Callers |-> IdleCall]
  /\ locks = NoLocks
  /\ procs = [p \in Procs |-> NoProc]

\* A caller invokes request("get", path)
CallRefresh(c) ==
  /\ call[c].pc \in {"idle", "done"}
  /\ Runnable(c)
  /\ LET args == [NoArgs EXCEPT !.method = "get", !.path = PathAbs] IN
       Commit(c, request(StOf([IdleCall EXCEPT !.op = "request", !.args = args]),
                         args))
  /\ UNCHANGED <<config, empties, launch>>

RefreshResponse(c) == ApiResponseFrom(c, RefreshResponses)

NextRefresh ==
  \/ CallRefresh("A")
  \/ RefreshResponse("A")
  \/ TokenResponse("A")

SpecRefresh == InitRefresh /\ [][NextRefresh]_vars

\* ------------------------------------------- every operation of a session
\* The answers of a token endpoint that rotates the refresh token: each
\* accepted answer holds a refresh_token of its own next to the access_token
RotatingAnswers ==
  {[kind |-> "response", status |-> 200, ctype |-> JsonType, content |-> "token",
    refresh |-> Some(<<"rt1">>)],
   [kind |-> "response", status |-> 400, ctype |-> JsonType, content |-> "object",
    refresh |-> None],
   [kind |-> "error", status |-> 200, ctype |-> TextType, content |-> "other",
    refresh |-> None]}

\* What the API answers: a page with a cursor, a last page, and the statuses
\* that start a refresh or make the dispatcher go on
SessionResponses ==
  {r \in [status : {200, 401, 404}, ctype : {JsonType}, json_ok : {TRUE},
          retry_after : {None}, raw : {"p12b1", "p3"}] :
     r.status # 200 => r.raw = "p3"}

\* The calls of upload_multipart: a path with and without its leading slash,
\* without headers and with an Authorization header of the caller's own
UploadArgs ==
  {[NoArgs EXCEPT !.method = "POST", !.path = p, !.headers = h] :
     p \in {PathAbs, PathRel}, h \in {None, Some(OwnAuthHeaders)}}

InitSession ==
  /\ access_token = NoToken
  /\ refresh_token = <<"rt0">>
  /\ client_id = <<"id0">>
  /\ client_secret = <<"secret0">>
  /\ max_retries \in 0..SessionRetries
  /\ token_url_env = <<>>
  /\ lp_version = V146
  /\ le_version = V174
  /\ lp_versions = <<V150, V146>>
  /\ le_versions = <<V174>>
  /\ empties = 0
  /\ call = [c \in Callers |-> IdleCall]
  /\ locks = NoLocks
  /\ procs = [p \in Procs |-> NoProc]

\* A caller invokes upload_multipart(path, fields=, files=, headers=)
CallUpload(c) ==
  /\ call[c].pc \in {"idle", "done"}
  /\ Runnable(c)
  /\ \E args \in UploadArgs :
       Commit(c, upload_multipart(StOf([IdleCall EXCEPT !.op = "upload"]), args))
  /\ UNCHANGED <<config, empties, launch>>

\* The API answers the POST of upload_multipart with one of the answers R
UploadResponseFrom(c, R) ==
  /\ call[c].pc = "upload"
  /\ Runnable(c)
  /\ \E r \in R : Commit(c, upload_response(St(c), r))
  /\ UNCHANGED <<config, empties, launch>>

\* The POST of upload_multipart fails in the transport
UploadTransportError(c) ==
  /\ call[c].pc = "upload"
  /\ Runnable(c)
  /\ Commit(c, upload_error(St(c)))
  /\ UNCHANGED <<config, empties, launch>>

\* A caller invokes download_bytes_b64(path)
CallDownload(c) ==
  /\ call[c].pc \in {"idle", "done"}
  /\ Runnable(c)
  /\ Commit(c, download_bytes_b64(StOf([IdleCall EXCEPT !.op = "download"]),
                                  PathAbs, None))
  /\ UNCHANGED <<config, empties, launch>>

\* A caller invokes request("get", path)
CallSessionRequest(c) ==
  /\ call[c].pc \in {"idle", "done"}
  /\ Runnable(c)
  /\ LET args == [NoArgs EXCEPT !.method = "get", !.path = PathAbs] IN
       Commit(c, request(StOf([IdleCall EXCEPT !.op = "request", !.args = args]), args))
  /\ UNCHANGED <<config, empties, launch>>

\* A caller invokes paginate_bookmark(path, page_size=2, max_pages=2)
CallSessionPaginate(c) ==
  /\ call[c].pc \in {"idle", "done"}
  /\ Runnable(c)
  /\ Commit(c, paginate_bookmark(StOf([IdleCall EXCEPT !.op = "paginate"]),
                                 [path |-> PathAbs, page_size |-> 2, max_pages |-> 2,
                                  params |-> None]))
  /\ UNCHANGED <<config, empties, launch>>

\* A caller invokes the version dispatcher for lp
CallSessionFallback(c) ==
  /\ call[c].pc \in {"idle", "done"}
  /\ Runnable(c)
  /\ LET fargs == [NoFallback EXCEPT !.service = "lp", !.method = "get",
                                     !.tail = <<"/", "users/whoami">>] IN
       Commit(c, request_with_version_fallback(StOf([IdleCall EXCEPT !.op = "lp"]),
                                               fargs))
  /\ UNCHANGED <<config, empties, launch>>

SessionResponse(c) == ApiResponseFrom(c, SessionResponses)
SessionUploadResponse(c) == UploadResponseFrom(c, SessionResponses)
SessionTokenResponse(c) == TokenResponseFrom(c, RotatingAnswers)

NextSession ==
  \/ CallSessionRequest("A")
  \/ CallDownload("A")
  \/ CallUpload("A")
  \/ CallSessionPaginate("A")
  \/ CallSessionFallback("A")
  \/ CallWrapper("A")
  \/ SessionResponse("A")
  \/ ApiTransportError("A")
  \/ SessionUploadResponse("A")
  \/ UploadTransportError("A")
  \/ SessionTokenResponse("A")

SpecSession == InitSession /\ [][NextSession]_vars

\* ----------------------------------- callers of request and of the upload
\* The calls of request and of upload_multipart by two callers that share the
\* session: without headers, and with an Authorization header of their own
BearerArgs ==
  {[NoArgs EXCEPT !.method = "get", !.path = PathAbs, !.headers = h] :
     h \in {None, Some(OwnAuthHeaders)}}

InitBearer ==
  /\ access_token = NoToken
  /\ refresh_token = <<"rt0">>
  /\ client_id = <<"id0">>
  /\ client_secret = <<"secret0">>
  /\ max_retries \in 0..BearerRetries
  /\ token_url_env = <<>>
  /\ lp_version = V146
  /\ le_version = V174
  /\ lp_versions = <<V146>>
  /\ le_versions = <<V174>>
  /\ empties = 0
  /\ call = [c \in Callers |-> IdleCall]
  /\ locks = NoLocks
  /\ procs = [p \in Procs |-> NoProc]

CallBearerRequest(c) ==
  /\ call[c].pc \in {"idle", "done"}
  /\ Runnable(c)
  /\ \E args \in BearerArgs :
       Commit(c, request(StOf([IdleCall EXCEPT !.op = "request", !.args = args]), args))
  /\ UNCHANGED <<config, empties, launch>>

CallBearerUpload(c) ==
  /\ call[c].pc \in {"idle", "done"}
  /\ Runnable(c)
  /\ Commit(c, upload_multipart(StOf([IdleCall EXCEPT !.op = "upload"]),
                                [NoArgs EXCEPT !.method = "POST", !.path = PathAbs]))
  /\ UNCHANGED <<config, empties, launch>>

\* The candidate being posted answers; the value under access_token in an
\* accepted answer is a token other than the cached one, the empty string or
\* null (body["access_token"] is stored as it comes, line 99)
NullableTokenResponse(c) ==
  /\ call[c].pc = "post"
  /\ Runnable(c)
  /\ \E a \in ConcurrentTokenAnswers :
       \E tok \in {FreshToken(access_token), EmptyToken, NoToken} :
         LET adopts == a.kind = "response" /\ a.status = 200 /\ TokenBody(a) = "token" IN
         /\ (tok \in {EmptyToken, NoToken} => adopts /\ empties < MaxEmpty)
         /\ Commit(c, token_response(St(c), a, tok))
         /\ empties' = IF tok \in {EmptyToken, NoToken} THEN empties + 1 ELSE empties
  /\ UNCHANGED <<config, launch>>

BearerResponse(c) == ApiResponseFrom(c, RaceResponses)
BearerUploadResponse(c) == UploadResponseFrom(c, RaceResponses)

NextBearer ==
  \E c \in Callers :
    \/ CallBearerRequest(c)
    \/ CallBearerUpload(c)
    \/ BearerResponse(c)
    \/ BearerUploadResponse(c)
    \/ UploadTransportError(c)
    \/ NullableTokenResponse(c)

SpecBearer == InitBearer /\ [][NextBearer]_vars

\* ------------------------------------------------------ a caller that uploads
\* What the API answers to the POST of upload_multipart: a success and the
\* statuses that request would retry, with bodies that are JSON, malformed
\* JSON or text
UploadResponses ==
  {r \in ApiResponses : r.status \in {200, 401, 429} /\ r.raw = "a"}

InitUpload ==
  /\ access_token = NoToken
  /\ refresh_token = <<"rt0">>
  /\ client_id = <<"id0">>
  /\ client_secret = <<"secret0">>
  /\ max_retries \in 0..UploadRetries
  /\ token_url_env = <<>>
  /\ lp_version = V146
  /\ le_version = V174
  /\ lp_versions = <<V146>>
  /\ le_versions = <<V174>>
  /\ empties = 0
  /\ call = [c \in Callers |-> IdleCall]
  /\ locks = NoLocks
  /\ procs = [p \in Procs |-> NoProc]

UploadResponse(c) == UploadResponseFrom(c, UploadResponses)

NextUpload ==
  \/ CallUpload("A")
  \/ UploadResponse("A")
  \/ UploadTransportError("A")
  \/ ConcurrentTokenResponse("A")

SpecUpload == InitUpload /\ [][NextUpload]_vars

\* ----------------------------------------- operations that run to their end
\* What the API answers while the ends of the operations are under study: the
\* pages of a walk, and the statuses that make request refresh, back off or
\* the dispatcher go on
LiveResponses ==
  {r \in [status : {200, 401, 404, 429}, ctype : {JsonType}, json_ok : {TRUE},
          retry_after : {None}, raw : {"p12b1", "p3"}] :
     r.status # 200 => r.raw = "p3"}

LiveResponse(c) == ApiResponseFrom(c, LiveResponses)
LiveUploadResponse(c) == UploadResponseFrom(c, LiveResponses)

NextLive ==
  \/ CallSessionRequest("A")
  \/ CallSessionPaginate("A")
  \/ CallSessionFallback("A")
  \/ CallUpload("A")
  \/ LiveResponse("A")
  \/ ApiTransportError("A")
  \/ LiveUploadResponse("A")
  \/ UploadTransportError("A")
  \/ Wake("A")
  \/ ConcurrentTokenResponse("A")

\* What ends an HTTP call that is under way, with an answer or with a failure,
\* and the return of time.sleep
Ends(c) ==
  \/ ApiTransportError(c)
  \/ UploadTransportError(c)
  \/ Wake(c)
  \/ ConcurrentTokenResponse(c)
  \/ LiveResponse(c)
  \/ LiveUploadResponse(c)

\* Every HTTP call that is under way ends and every sleep returns; nothing
\* makes a caller start an operation
SpecLive == InitSession /\ [][NextLive]_vars /\ WF_vars(Ends("A"))

\* ------------------------------------------ processes that launch the server
\* fcntl.flock(lf.fileno(), fcntl.LOCK_EX | fcntl.LOCK_NB): granted when no
\* other open file holds a lock on the file, BlockingIOError otherwise
flock_unchecked(holder, p) == "ok"

flock(holder, p) == IF holder \in {"none", p} THEN "ok" ELSE "BlockingIOError"

\* start_mcp and run_locked_mcp up to the lock: open the lock file, ask for
\* the exclusive lock without blocking, and on BlockingIOError print and
\* sys.exit(1) (die, line 19 of the bootstrap)
lock_or_exit(pr, p, holder) ==
  IF flock(holder, p) = "ok" THEN [pr EXCEPT !.pc = "locked"]
  ELSE [pr EXCEPT !.pc = "exited", !.code = 1, !.blocked = TRUE]

\* start_mcp and run_locked_mcp after the lock: the environment of the server
\* and subprocess.Popen; reading tokens.json in the launcher, or Popen, can
\* raise, and the process then ends with a traceback and status 1
spawn(pr, ok) ==
  IF ok THEN [pr EXCEPT !.pc = "serving", !.spawned = TRUE, !.server = "running"]
  ELSE [pr EXCEPT !.pc = "exited", !.code = 1]

\* The kernel drops the lock of a process that unlocks the file or ends
Released(p, f) == [locks EXCEPT ![f] = IF @ = p THEN "none" ELSE @]

\* The processes that are started in the directory: bootstraps, which always
\* lock LOCK_PATH, and launchers, which lock BS_TOKENS_LOCK when it is set
Starting ==
  {pr \in [script : Scripts, lock : LockFiles, pc : {"start"}, code : {-1},
           blocked : {FALSE}, spawned : {FALSE}, server : {"none"}] :
     pr.script = "bootstrap" => pr.lock = LOCK_PATH}

InitLock ==
  /\ access_token = NoToken
  /\ refresh_token = <<"rt0">>
  /\ client_id = <<"id0">>
  /\ client_secret = <<"secret0">>
  /\ max_retries = 0
  /\ token_url_env = <<>>
  /\ lp_version = V146
  /\ le_version = V174
  /\ lp_versions = <<V146>>
  /\ le_versions = <<V174>>
  /\ empties = 0
  /\ call = [c \in Callers |-> IdleCall]
  /\ locks = NoLocks
  /\ procs \in [Procs -> Starting]

\* A process reaches the lock
Lock(p) ==
  /\ procs[p].pc = "start"
  /\ LET after == lock_or_exit(procs[p], p, locks[procs[p].lock]) IN
       /\ procs' = [procs EXCEPT ![p] = after]
       /\ locks' = IF after.pc = "locked" THEN [locks EXCEPT ![after.lock] = p]
                   ELSE locks
  /\ UNCHANGED <<access_token, creds, config, empties, call>>

\* A process that has the lock spawns the server, or fails to
Popen(p) ==
  /\ procs[p].pc = "locked"
  /\ \E ok \in BOOLEAN :
       LET after == spawn(procs[p], ok) IN
         /\ procs' = [procs EXCEPT ![p] = after]
         /\ locks' = IF after.pc = "exited" THEN Released(p, after.lock) ELSE locks
  /\ UNCHANGED <<access_token, creds, config, empties, call>>

\* mcp_handshake_and_test of the bootstrap fails, lines 161-172: die, the
\* finally clause of line 219 unlocks the file, and the server it spawned is
\* left running
HandshakeFails(p) ==
  /\ procs[p].pc = "serving" /\ procs[p].script = "bootstrap"
  /\ procs[p].server = "running"
  /\ procs' = [procs EXCEPT ![p].pc = "exited", ![p].code = 1]
  /\ locks' = Released(p, procs[p].lock)
  /\ UNCHANGED <<access_token, creds, config, empties, call>>

\* The server a process spawned ends
ServerEnds(p) ==
  /\ procs[p].server = "running"
  /\ procs' = [procs EXCEPT ![p].server = "ended"]
  /\ UNCHANGED <<access_token, creds, config, empties, call, locks>>

\* p.wait() returns: the bootstrap unlocks the file in its finally clause, the
\* launcher ends and the kernel closes its lock file
WaitReturns(p) ==
  /\ procs[p].pc = "serving" /\ procs[p].server = "ended"
  /\ procs' = [procs EXCEPT ![p].pc = "exited", ![p].code = 0]
  /\ locks' = Released(p, procs[p].lock)
  /\ UNCHANGED <<access_token, creds, config, empties, call>>

NextLock ==
  \E p \in Procs :
    \/ Lock(p)
    \/ Popen(p)
    \/ HandshakeFails(p)
    \/ ServerEnds(p)
    \/ WaitReturns(p)

SpecLock == InitLock /\ [][NextLock]_vars

------------------------------------------------------------------------------
\* ------------------------------------------------------------- properties
LastEv(k) == k.trace[Len(k.trace)]
CountEv(tr, e) == Len(SelectSeq(tr, LAMBDA x : x.ev = e))
\* the positions of the API attempts in a trace
ApiPos(tr) == {i \in 1..Len(tr) : tr[i].ev = "api"}
\* the ordinal of the attempt that the event at position i belongs to
AttemptAt(tr, i) == Cardinality({j \in ApiPos(tr) : j <= i})
MinOf(S) == CHOOSE x \in S : \A y \in S : x <= y
MaxOf(S) == CHOOSE x \in S : \A y \in S : x >= y
\* a token endpoint's answer that is a 200 with a JSON object holding access_token
Accepted(a) ==
  a.kind = "response" /\ a.status = 200 /\ a.content = "token"
  /\ Contains(a.ctype, "application/json")
\* the POSTs of the refresh went to the first n candidates, in order
PostedFirst(k, n) ==
  Len(k.posted) = n /\ \A i \in 1..n : k.posted[i].url = Candidates[i]

\* C1: with max_retries >= 1, a 401 on the first attempt and a status S outside
\* {401, 429} on the second, request refreshes exactly once between the two
\* attempts, re-sends the same method, url, params and body with the refreshed
\* credential and returns S with its body.
C1_RefreshOnceAndReturn ==
  \A c \in Callers :
    LET k == call[c]
        tr == k.trace
        P == ApiPos(tr)
        p1 == MinOf(P)
        p2 == MaxOf(P)
        between == SubSeq(tr, p1 + 2, p2 - 1)
    IN (/\ k.op = "request" /\ max_retries >= 1 /\ Cardinality(P) = 2
        /\ Len(tr) = p2 + 1
        /\ tr[p1 + 1].ev = "resp" /\ tr[p1 + 1].n = 401
        /\ tr[p2 + 1].ev = "resp" /\ tr[p2 + 1].n \notin {401, 429})
       => /\ Len(between) = 1
          /\ between[1].ev = "refreshed"
          /\ tr[p2].sent[1].method = tr[p1].sent[1].method
          /\ tr[p2].sent[1].url = tr[p1].sent[1].url
          /\ tr[p2].sent[1].params = tr[p1].sent[1].params
          /\ tr[p2].sent[1].json = tr[p1].sent[1].json
          /\ ("Authorization" \notin DOMAIN OwnAuthHeaders \/ k.args.headers # Some(OwnAuthHeaders)
                => tr[p2].sent[1].headers["Authorization"] = <<"Bearer ", between[1].n>>)
          /\ k.pc = "done"
          /\ k.result.kind = "return"
          /\ k.result.status = tr[p2 + 1].n
          /\ k.result.body.raw = k.last_resp[1].raw

\* C2: one call to request issues at most max_retries + 1 API attempts, whatever
\* the mix of 401 answers, 429 answers and transport errors: the retries after a
\* 401, the backoff sleeps and the transport errors together number at most
\* max_retries + 1, and the first two together at most max_retries.
C2_SharedRetryBudget ==
  \A c \in Callers :
    LET k == call[c]
        tr == k.trace
        after401 == Cardinality({i \in 1..(Len(tr) - 1) :
                       tr[i].ev = "resp" /\ tr[i].n = 401 /\ tr[i + 1].ev = "refreshed"})
    IN k.op = "request" =>
         /\ Attempt(k) <= max_retries + 1
         /\ after401 + CountEv(tr, "sleep") + CountEv(tr, "err") <= max_retries + 1
         /\ after401 + CountEv(tr, "sleep") <= max_retries
         /\ (k.pc = "http" =>
               Attempt(k) = 1 + after401 + CountEv(tr, "sleep") + CountEv(tr, "err"))

\* C2 witness: a call that spent its whole budget on retries of different kinds
C2_Witness ==
  \E c \in Callers :
    /\ call[c].op = "request" /\ call[c].pc = "done"
    /\ max_retries = 2 /\ Attempt(call[c]) = 3
    /\ CountEv(call[c].trace, "refreshed") = 1
    /\ CountEv(call[c].trace, "sleep") = 1

\* C3: a call to request whose path does not begin with "/" ends at once with
\* the invalid-argument error: no API attempt, no refresh POST, and the cached
\* credential is what it was.
C3_InvalidPathNoNetwork ==
  [][\A c \in Callers :
       (/\ call[c].pc \in {"idle", "done"}
        /\ call'[c] # call[c]
        /\ call'[c].op = "request"
        /\ ~StartsWith(call'[c].args.path, "/"))
       => /\ call'[c].pc = "done"
          /\ call'[c].result.kind = "raise"
          /\ call'[c].result.exc = ValueErrorPath
          /\ call'[c].trace = <<>>
          /\ call'[c].posted = <<>>
          /\ access_token' = access_token]_vars

\* C3 witness: an invalid path rejected on a session that holds a credential
C3_Witness ==
  \E c \in Callers :
    /\ call[c].op = "request" /\ call[c].pc = "done"
    /\ ~StartsWith(call[c].args.path, "/")
    /\ call[c].result.exc = ValueErrorPath
    /\ call[c].trace = <<>>
    /\ access_token > 0

\* C4: a round trip of request that completes with a status in 400..599 never
\* makes request raise (unless a credential refresh fails): the call goes on
\* to a retry or returns the triple with that status.
C4_NoRaiseOnErrorStatus ==
  \A c \in Callers :
    LET k == call[c] IN
    (k.op = "request" /\ k.pc = "done" /\ k.trace # <<>>
       /\ k.result.exc.type # HTTPStatusError(NoErr).type)
    => /\ (LastEv(k).ev = "resp" /\ LastEv(k).n \in 400..599
             => k.result.kind = "return" /\ k.result.status = LastEv(k).n)
       /\ LastEv(k).ev # "sleep"

\* the delay C5 expects for a Retry-After header
C5_ExpectedDelay(ra) ==
  IF ra = <<"2">> THEN 2 ELSE IF ra = <<"-1">> THEN 0 - 1 ELSE 1

\* C5: a 429 with retry budget remaining is followed by exactly one sleep, of
\* the Retry-After value when that parses as a number and of 1 second
\* otherwise, and then by the next attempt; no refresh is started by the 429
\* (after the sleep, one is started only by a cached credential that is empty).
C5_BackoffThenRetry ==
  \A c \in Callers :
    LET k == call[c]
        tr == k.trace
    IN k.op = "request" =>
         \A i \in 1..Len(tr) :
           (tr[i].ev = "resp" /\ tr[i].n = 429 /\ AttemptAt(tr, i) <= max_retries)
           => /\ i < Len(tr)
              /\ tr[i + 1].ev = "sleep"
              /\ (i + 1 = Len(tr) =>
                    \/ /\ k.pc = "sleep"
                       /\ tr[i + 1].n = C5_ExpectedDelay(k.last_resp[1].retry_after)
                       /\ k.delay = tr[i + 1].n
                    \/ /\ Falsy(access_token)
                       /\ k.why = "lazy"
                       /\ k.retries = AttemptAt(tr, i)
                       /\ \/ k.pc = "post"
                          \/ /\ k.pc = "done"
                             /\ k.result.exc.type = HTTPStatusError(NoErr).type)
              /\ (i + 2 <= Len(tr) => tr[i + 2].ev \in {"api", "acquired"})

\* C6: a transport error costs one retry and the request is attempted again
\* while the budget lasts; when request raises a transport error it is the one
\* of the last attempt, raised because that error exhausted the budget, and
\* an error followed by another attempt is not what the caller gets.
C6_TransportErrorRetried ==
  \A c \in Callers :
    LET k == call[c]
        tr == k.trace
        after401 == Cardinality({i \in 1..(Len(tr) - 1) :
                       tr[i].ev = "resp" /\ tr[i].n = 401 /\ tr[i + 1].ev = "refreshed"})
    IN (k.op = "request" /\ tr # <<>>) =>
         /\ (k.pc = "http" =>
               k.retries = after401 + CountEv(tr, "sleep") + CountEv(tr, "err"))
         /\ \A i \in 1..(Len(tr) - 1) :
              tr[i].ev = "err" =>
                /\ tr[i].n = AttemptAt(tr, i)
                /\ tr[i].n <= max_retries
                /\ tr[i + 1].ev \in {"api", "acquired"}
                /\ (tr[i + 1].ev = "api" =>
                      tr[i + 1].sent[1].url = tr[MinOf(ApiPos(tr))].sent[1].url)
         /\ (LastEv(k).ev = "err" =>
               \/ /\ k.retries = max_retries + 1
                  /\ LastEv(k).n = max_retries + 1
                  /\ k.pc = "done"
                  /\ k.result.kind = "raise"
                  /\ k.result.exc = RequestError(Attempt(k))
               \/ /\ k.retries <= max_retries
                  /\ \/ k.pc = "post"
                     \/ /\ k.pc = "done"
                        /\ k.result.exc.type = HTTPStatusError(NoErr).type)
         /\ (k.pc = "done" /\ k.result.exc.type = RequestError(0).type =>
               /\ LastEv(k).ev = "err"
               /\ k.result.exc.attempt = Attempt(k))

\* C6 witness: the first attempt fails in the transport, the second is answered
\* 401 and the third fails in the transport again, which request raises
C6_Witness ==
  \E c \in Callers :
    /\ call[c].op = "request" /\ call[c].pc = "done"
    /\ max_retries = 2
    /\ call[c].result.exc = RequestError(3)
    /\ CountEv(call[c].trace, "err") = 2
    /\ CountEv(call[c].trace, "refreshed") = 1

\* C7: the refresh stops at the first candidate that answers 200 with a JSON
\* object holding access_token: that token becomes the cached credential and is
\* what the refresh returns (the next attempt carries it), and only the
\* candidates up to that one were posted to.
C7_FirstAcceptedCandidateWins ==
  \A c \in Callers :
    LET k == call[c]
        tr == k.trace
    IN (k.answer # None /\ Accepted(k.answer[1].a)) =>
         /\ access_token = k.answer[1].tok
         /\ PostedFirst(k, k.answer[1].cand)
         /\ k.pc = "http"
         /\ Len(tr) >= 2
         /\ tr[Len(tr) - 1].ev \in {"acquired", "refreshed"}
         /\ tr[Len(tr) - 1].n = k.answer[1].tok
         /\ LastEv(k).ev = "api"
         /\ (k.args.headers = None \/ "Authorization" \notin DOMAIN k.args.headers[1]
               => LastEv(k).sent[1].headers["Authorization"] = Bearer(k.answer[1].tok))

\* C7 witness: four candidates, the first two not accepted and the third
\* accepted; the fourth was not posted to
C7_Witness ==
  \E c \in Callers :
    /\ Len(Candidates) = 4
    /\ call[c].answer # None /\ Accepted(call[c].answer[1].a)
    /\ call[c].answer[1].cand = 3
    /\ Len(call[c].posted) = 3
    /\ call[c].posted[3].url = Candidates[3]
    /\ access_token = call[c].answer[1].tok /\ access_token > 0

\* C8: a candidate that answers 400 ends the refresh: no later candidate is
\* posted to and the refresh raises its error.
C8_BadRequestStopsRefresh ==
  \A c \in Callers :
    LET k == call[c] IN
    (k.answer # None /\ k.answer[1].a.kind = "response" /\ k.answer[1].a.status = 400) =>
      /\ PostedFirst(k, k.answer[1].cand)
      /\ k.pc = "done"
      /\ k.result.kind = "raise"
      /\ k.result.exc.type = HTTPStatusError(NoErr).type
      /\ access_token # k.answer[1].tok

\* C8 witness: the first of four candidates answers 400 and the refresh fails
C8_Witness ==
  \E c \in Callers :
    /\ Len(Candidates) = 4
    /\ call[c].answer # None /\ call[c].answer[1].a.status = 400
    /\ call[c].answer[1].cand = 1
    /\ Len(call[c].posted) = 1
    /\ call[c].result.exc.type = HTTPStatusError(NoErr).type

\* the error that the refresh records for an answer a of the candidate at url
C9_Recorded(a, url, err) ==
  IF a.kind = "error" THEN err.kind = "request error"
  ELSE /\ err.status = a.status
       /\ err.url = url
       /\ err.kind = (IF a.status \in {404, 410, 302} THEN "status at url"
                      ELSE "status at url: body")

\* C9: a refresh in which no candidate is accepted, all of them tried or cut
\* short by a 400, raises its error and adopts no token, and the error carries
\* what was recorded for the last candidate posted to; the refresh raises in
\* no other case.
C9_RefreshFailureCarriesLastError ==
  \A c \in Callers :
    LET k == call[c]
        failed == k.pc = "done" /\ k.result.exc.type = HTTPStatusError(NoErr).type
        over == /\ k.answer # None
                /\ ~Accepted(k.answer[1].a)
                /\ \/ k.answer[1].cand = Len(Candidates)
                   \/ k.answer[1].a.kind = "response" /\ k.answer[1].a.status = 400
    IN /\ (over => failed)
       /\ (failed =>
             /\ over
             /\ k.result.kind = "raise"
             /\ PostedFirst(k, k.answer[1].cand)
             /\ access_token # k.answer[1].tok
             /\ k.result.exc.err = k.last_err
             /\ C9_Recorded(k.answer[1].a, Candidates[k.answer[1].cand], k.result.exc.err))

\* C9 witness: every one of four candidates tried, the last one answering 500
C9_Witness ==
  \E c \in Callers :
    /\ Len(Candidates) = 4
    /\ call[c].pc = "done"
    /\ call[c].result.exc.type = HTTPStatusError(NoErr).type
    /\ call[c].answer[1].cand = 4
    /\ Len(call[c].posted) = 4
    /\ call[c].result.exc.err.status = 500
    /\ call[c].result.exc.err.url = Candidates[4]

\* ------------------------------------------- properties of the dispatcher
\* the default version of a family, and the list L a call supplies: its
\* versions argument, or the session's list when that is None or empty
C10_Default(service) == IF service = "lp" THEN lp_version ELSE le_version
C10_Supplied(f) ==
  IF f.versions # None /\ f.versions[1] # <<>> THEN f.versions[1]
  ELSE IF f.service = "lp" THEN lp_versions ELSE le_versions
\* the positions of L that hold a value not seen at an earlier position
C10_Keep(L) == {i \in 1..Len(L) : \A j \in 1..(i - 1) : L[j] # L[i]}
\* L in first-seen order with duplicates removed
C10_FirstSeen(L) ==
  [n \in 1..Cardinality(C10_Keep(L)) |->
     L[CHOOSE i \in C10_Keep(L) : Cardinality({j \in C10_Keep(L) : j < i}) = n - 1]]
\* L without the value d
C10_Without(L, d) == SelectSeq(L, LAMBDA v : v # d)
\* the requests of a dispatcher call went, in order, to the first versions of
\* the list order
C10_Follows(k, order) ==
  /\ Len(k.vlog) <= Len(order)
  /\ \A i \in 1..Len(k.vlog) :
       /\ k.vlog[i].ver = order[i]
       /\ k.vlog[i].path =
            <<"/", "d2l/api/", k.fargs.service, "/">> \o order[i] \o k.fargs.tail

C11_Order(f) ==
  LET d == C10_Default(f.service)
      L == C10_Supplied(f)
  IN IF \E i \in 1..Len(L) : L[i] = d THEN C10_FirstSeen(L) ELSE <<d>> \o C10_FirstSeen(L)
\* the dispatcher's result is the triple of the latest answer of the API
C11_ReturnsLatest(k) ==
  /\ k.returned /\ k.pc = "done"
  /\ k.result.kind = "return"
  /\ k.last_resp # None
  /\ k.result.status = k.last_resp[1].status
  /\ k.result.status = k.vlog[Len(k.vlog)].status
  /\ k.result.body = [variant |-> BodyVariant(k.last_resp[1].ctype, k.fargs.expect_json),
                      raw |-> k.last_resp[1].raw]
  /\ k.result.headers = [ctype |-> k.last_resp[1].ctype,
                         retry_after |-> k.last_resp[1].retry_after]

C12_FirstDefinitiveStatusReturned ==
  \A c \in Callers :
    LET k == call[c] IN
    k.op \in {"lp", "le"} =>
      \A i \in 1..Len(k.vlog) :
        k.vlog[i].status \notin {0, 404, 410} =>
          /\ i = Len(k.vlog)
          /\ \A j \in 1..(i - 1) : k.vlog[j].status \in {404, 410}
          /\ k.vidx = i
          /\ C11_ReturnsLatest(k)

\* C12 witness: a 403 for the first of several versions is returned at once
C12_Witness ==
  \E c \in Callers :
    /\ call[c].op \in {"lp", "le"} /\ call[c].returned
    /\ Len(call[c].uniq) >= 2
    /\ Len(call[c].vlog) = 1
    /\ call[c].vlog[1].status = 403
    /\ call[c].result.kind = "return" /\ call[c].result.status = 403

\* C13: when the request of every version returns 404 or 410, the dispatcher
\* returns the result of the last version, not an error and not the result of
\* an earlier version, each distinct version having been requested once.
C13_AllMismatchReturnsLast ==
  \A c \in Callers :
    LET k == call[c]
        n == Len(k.vlog)
        order == C11_Order(k.fargs)
    IN (/\ k.op \in {"lp", "le"}
        /\ n = Len(order)
        /\ \A i \in 1..n : k.vlog[i].status \in {404, 410})
       => /\ C10_Follows(k, order)
          /\ \A i, j \in 1..n : k.vlog[i].ver = k.vlog[j].ver => i = j
          /\ C11_ReturnsLatest(k)

\* C13 witness: three versions, answered 404, 404 and 410; the 410 is returned
C13_Witness ==
  \E c \in Callers :
    /\ call[c].op \in {"lp", "le"} /\ call[c].returned
    /\ Len(call[c].vlog) = 3 /\ Len(call[c].uniq) = 3
    /\ call[c].vlog[1].status = 404
    /\ call[c].vlog[2].status = 404
    /\ call[c].vlog[3].status = 410
    /\ call[c].result.kind = "return" /\ call[c].result.status = 410

\* ---------------------------------------------- properties of the walker
\* a page that the walker goes on from: a JSON object with a status below 400
C14_Good(pg) ==
  /\ pg.status # 0 /\ pg.status < 400
  /\ pg.body.variant = "json" /\ Json(pg.body.raw).kind = "dict"

\* the item collection and the cursor of a page
C14_ItemsOf(pg) ==
  LET doc == Json(pg.body.raw)
  IN IF doc.Items # <<>> THEN doc.Items ELSE doc.items

C14_CursorOf(pg) ==
  LET doc == Json(pg.body.raw)
  IN IF doc.Bookmark \notin {"null", ""} THEN doc.Bookmark
     ELSE IF doc.Next \notin {"null", ""} THEN doc.Next
     ELSE doc.bookmark

C14_HasCursor(pg) == C14_CursorOf(pg) \notin {"null", ""}

RECURSIVE C14_Concat(_, _)
\* the items of the first n pages, in page order
C14_Concat(plog, n) ==
  IF n = 0 THEN <<>> ELSE C14_Concat(plog, n - 1) \o C14_ItemsOf(plog[n])

\* a walk that has returned a value
C14_Returned(k) ==
  k.op = "paginate" /\ k.pc = "done" /\ k.returned /\ k.result.kind # "raise"

\* C14: when every page is a JSON object with a status below 400 and the last
\* page has no cursor, paginate_bookmark returns status 200, the items of the
\* pages concatenated in page order, and the non-empty cursors in order.
C14_ItemsAndBookmarks ==
  \A c \in Callers :
    LET k == call[c]
        n == Len(k.plog)
    IN (/\ C14_Returned(k)
        /\ n >= 1
        /\ \A i \in 1..n : C14_Good(k.plog[i])
        /\ ~C14_HasCursor(k.plog[n]))
       => /\ DOMAIN k.out = {"status", "items", "bookmarks", "last_bookmark"}
          /\ k.out.status = 200
          /\ k.out.items = C14_Concat(k.plog, n)
          /\ k.out.bookmarks = [i \in 1..(n - 1) |-> C14_CursorOf(k.plog[i])]
          /\ \A i \in 1..(n - 1) : C14_HasCursor(k.plog[i])

\* C14 witness: the pages of the unit test, {Items: [1, 2], Bookmark: b1} and
\* then {Items: [3], Bookmark: null}
C14_Witness ==
  \E c \in Callers :
    /\ C14_Returned(call[c])
    /\ Len(call[c].plog) = 2
    /\ call[c].plog[1].status = 200 /\ call[c].plog[1].body.raw = "p12b1"
    /\ call[c].plog[2].status = 200 /\ call[c].plog[2].body.raw = "p3"
    /\ call[c].out.status = 200
    /\ call[c].out.items = <<1, 2, 3>>
    /\ call[c].out.bookmarks = <<"b1">>

\* C15: a page with a status of 400 or more, or whose body is not a JSON
\* object, ends the walk: paginate_bookmark returns that page's status and
\* body under status and data and nothing else, and no page is requested
\* after it.
C15_FailingPageReturned ==
  \A c \in Callers :
    LET k == call[c]
        n == Len(k.plog)
    IN k.op = "paginate" =>
         /\ \A i \in 1..(n - 1) : C14_Good(k.plog[i])
         /\ (n >= 1 /\ k.plog[n].status # 0 /\ ~C14_Good(k.plog[n]))
              => /\ k.pc = "done" /\ k.returned
                 /\ DOMAIN k.out = {"status", "data"}
                 /\ k.out.status = k.plog[n].status
                 /\ k.out.data = k.plog[n].body
                 /\ k.out.data = k.result.body

\* C15 witness: a second page that is a JSON list with status 200 ends a walk
\* of three pages at most, the first page having supplied a cursor
C15_Witness ==
  \E c \in Callers :
    /\ C14_Returned(call[c])
    /\ call[c].pargs.max_pages > 2
    /\ Len(call[c].plog) = 2
    /\ C14_HasCursor(call[c].plog[1])
    /\ call[c].plog[2].status = 200
    /\ call[c].plog[2].body = [variant |-> "json", raw |-> "plist"]
    /\ call[c].out = [status |-> 200, data |-> [variant |-> "json", raw |-> "plist"]]

\* a walk that ended at page n > 1 because that page failed
C16_FailedAfterSuccess(k) ==
  /\ C14_Returned(k)
  /\ Len(k.plog) > 1
  /\ \A i \in 1..(Len(k.plog) - 1) : C14_Good(k.plog[i])
  /\ ~C14_Good(k.plog[Len(k.plog)])

\* C16 as stated: when page k > 1 fails after pages 1..k-1 succeeded, the
\* value paginate_bookmark returns carries the failing status together with
\* the items accumulated from pages 1..k-1.
C16_PartialResultCarried ==
  \A c \in Callers :
    LET k == call[c] IN
    C16_FailedAfterSuccess(k)
      => /\ k.out.status = k.plog[Len(k.plog)].status
         /\ "items" \in DOMAIN k.out
         /\ k.out.items = C14_Concat(k.plog, Len(k.plog) - 1)

\* C16: when page k > 1 fails after pages 1..k-1 succeeded, the value
\* paginate_bookmark returns holds the failing status and the failing page's
\* body only: the items and the cursors gathered from pages 1..k-1 are in the
\* walker's locals and in no key of the value returned.
C16_OnlyFailingPageReturned ==
  \A c \in Callers :
    LET k == call[c] IN
    C16_FailedAfterSuccess(k)
      => /\ k.out.status = k.plog[Len(k.plog)].status
         /\ k.out.data = k.plog[Len(k.plog)].body
         /\ DOMAIN k.out \cap {"items", "bookmarks", "last_bookmark"} = {}
         /\ k.merged = C14_Concat(k.plog, Len(k.plog) - 1)

\* C16 witness: page 1 gave the items 1 and 2, page 2 answered 500
C16_Witness ==
  \E c \in Callers :
    /\ C16_FailedAfterSuccess(call[c])
    /\ Len(call[c].plog) = 2
    /\ call[c].plog[2].status = 500
    /\ call[c].merged = <<1, 2>>
    /\ call[c].out.status = 500

\* C17: paginate_bookmark calls request at most max_pages times, each time
\* with GET and the path it was given, and calls it no more after a page
\* without a cursor; when max_pages pages were fetched and the last one still
\* gave a cursor it returns status 200, the items of the pages fetched and
\* that cursor as last_bookmark; with max_pages = 0 it requests nothing and
\* returns status 200 with no items.
C17_PageCap ==
  \A c \in Callers :
    LET k == call[c]
        n == Len(k.plog)
    IN k.op = "paginate" =>
         /\ n <= k.pargs.max_pages
         /\ n = k.npages
         /\ \A i \in 1..n : k.plog[i].path = k.pargs.path
         /\ \A i \in ApiPos(k.trace) :
              /\ k.trace[i].sent[1].method = "GET"
              /\ k.trace[i].sent[1].url = base_url \o k.pargs.path
         /\ \A i \in 1..(n - 1) : C14_HasCursor(k.plog[i])
         /\ (/\ C14_Returned(k) /\ n >= 1 /\ n = k.pargs.max_pages
             /\ C14_Good(k.plog[n]) /\ C14_HasCursor(k.plog[n]))
              => /\ k.out.status = 200
                 /\ k.out.items = C14_Concat(k.plog, n)
                 /\ k.out.last_bookmark = C14_CursorOf(k.plog[n])
         /\ k.pargs.max_pages = 0
              => /\ k.pc = "done" /\ k.returned
                 /\ k.plog = <<>> /\ k.trace = <<>> /\ k.posted = <<>>
                 /\ k.out.status = 200
                 /\ k.out.items = <<>>

\* C17 witness: max_pages = 2, both pages gave a cursor, and the second
\* cursor is handed back unconsumed
C17_Witness ==
  \E c \in Callers :
    /\ C14_Returned(call[c])
    /\ call[c].pargs.max_pages = 2
    /\ Len(call[c].plog) = 2
    /\ call[c].plog[1].body.raw = "p12b1" /\ call[c].plog[1].status = 200
    /\ call[c].plog[2].body.raw = "p4next" /\ call[c].plog[2].status = 200
    /\ call[c].out.status = 200
    /\ call[c].out.items = <<1, 2, 4>>
    /\ call[c].out.last_bookmark = "b2"

\* C17 witness of the empty walk: max_pages = 0 returns at once
C17_WitnessNoPage ==
  \E c \in Callers :
    /\ call[c].op = "paginate" /\ call[c].returned
    /\ call[c].pargs.max_pages = 0
    /\ call[c].out = [status |-> 200, items |-> <<>>, bookmarks |-> <<>>,
                      last_bookmark |-> "null"]

\* ------------------------------------------- properties of the wrappers
\* C18: whenever lp or le hands a wrapper a status of 400 or more, the wrapper
\* raises RuntimeError with the status and the body in its message and returns
\* nothing; a wrapper returns a body only of a response with a status below 400.
C18_WrapperRaisesOnErrorStatus ==
  \A c \in Callers :
    LET k == call[c] IN
    (k.wrapper # NoWrapper /\ k.pc = "done" /\ k.returned)
      => /\ k.wout # NoWout
         /\ (k.result.kind = "return" /\ k.result.status >= 400)
              => /\ k.wout.kind = "raise"
                 /\ k.wout.type = "RuntimeError"
                 /\ k.wout.msg = <<k.wrapper.name, " failed: ", k.result.status, " ",
                                   k.result.body>>
                 /\ k.wout.value = NoBody
         /\ k.wout.kind = "return"
              => /\ k.result.kind = "return"
                 /\ k.result.status < 400
                 /\ k.wout.value = k.result.body

\* C18 witness: create_announcement raises on a 500 that followed a 404 of
\* the first version
C18_Witness ==
  \E c \in Callers :
    /\ call[c].wrapper.name = "create_announcement"
    /\ call[c].returned
    /\ Len(call[c].vlog) = 2
    /\ call[c].vlog[1].status = 404
    /\ call[c].result.kind = "return" /\ call[c].result.status = 500
    /\ call[c].wout.kind = "raise"
    /\ call[c].wout.msg = <<"create_announcement", " failed: ", 500, " ",
                            [variant |-> "json", raw |-> "p3"]>>

\* ------------------------------------------------ properties of build_path
\* the tail with its leading "/"
C19_Slashed(t) == IF t # <<>> /\ t[1] = "/" THEN t ELSE <<"/">> \o t

\* "/d2l/api/" + s + "/" + v + t
C19_Path(s, v, t) == <<"/", "d2l/api/", s, "/">> \o v \o t

\* C19: build_path(s, t, version=v) with a version v that is given (a
\* non-empty string) is "/d2l/api/" + s + "/" + v + t', t' being t with a
\* leading "/" added when it has none, so that a tail x without a leading "/"
\* gives the path of "/" + x; without a version, lp gets the session's
\* lp_version and le its le_version.
C19_BuildPath ==
  \A c \in Callers :
    LET b == call[c].built IN
    call[c].op = "build_path" =>
      /\ (b.version # None /\ b.version[1] # <<>>)
           => b.path = C19_Path(b.service, b.version[1], C19_Slashed(b.tail))
      /\ (b.version = None /\ b.service = "lp")
           => b.path = C19_Path("lp", lp_version, C19_Slashed(b.tail))
      /\ (b.version = None /\ b.service = "le")
           => b.path = C19_Path("le", le_version, C19_Slashed(b.tail))
      /\ ~(b.tail # <<>> /\ b.tail[1] = "/")
           => b.path = build_path(b.service, <<"/">> \o b.tail, b.version)

\* C19 witness: the unit test's build_path("le", "content/toc") on a session
\* with le_version 1.74
C19_Witness ==
  \E c \in Callers :
    /\ call[c].op = "build_path"
    /\ le_version = V174
    /\ call[c].built.service = "le"
    /\ call[c].built.tail = <<"content/toc">>
    /\ call[c].built.version = None
    /\ call[c].built.path = <<"/", "d2l/api/", "le", "/", "1.74", "/", "content/toc">>

\* ------------------------------------------ properties of concurrent callers
\* C20: while one caller is in its 429 backoff sleep the other caller can
\* still take its steps: start a request, and receive the answer of the
\* API or of the token endpoint that it awaits.
C20_BackoffNeverStalls ==
  \A a, b \in Callers :
    (a # b /\ call[a].pc = "sleep")
      => /\ call[b].pc \in {"idle", "done"} => ENABLED CallConcurrent(b)
         /\ call[b].pc = "http" => ENABLED ConcurrentResponse(b)
         /\ call[b].pc = "post" => ENABLED ConcurrentTokenResponse(b)

\* C20 case: A sleeps after a 429 while a request of B is in flight
C20_Witness ==
  /\ call["A"].pc = "sleep"
  /\ call["A"].last_resp # None /\ call["A"].last_resp[1].status = 429
  /\ call["B"].pc = "http"

\* ------------------------------------------ properties of the credential
\* a step in which caller c adopts the token of an accepted answer
C21_Adopts(c) ==
  LET i == Len(call[c].trace) + 1 IN
  /\ call[c].pc = "post"
  /\ Len(call'[c].trace) >= i
  /\ call'[c].trace[i].ev \in {"acquired", "refreshed"}
  /\ call'[c].trace[i].n = access_token'
  /\ \A d \in Callers \ {c} : call'[d] = call[d]

\* the bearer credentials that the attempts of a call have carried
C21_Carried(k) ==
  {k.trace[i].sent[1].headers["Authorization"] : i \in ApiPos(k.trace)}

\* what holds of two racing callers in every state
C21_InBudget ==
  /\ access_token \in {NoToken, EmptyToken, 1, 2}
  /\ \A c \in Callers :
       /\ CountEv(call[c].trace, "api") <= max_retries + 1
       /\ call[c].retries <= max_retries
       /\ Bearer(NoToken) \notin C21_Carried(call[c])
       /\ call[c].pc = "http" => LastEv(call[c]).ev = "api"

\* C21: with two callers interleaved at every await, the cached credential
\* changes only in a step in which one caller's refresh has been accepted, and
\* then to the token of that refresh (the last writer's); every call stays
\* within max_retries + 1 attempts and never sends an attempt without a
\* credential obtained by a refresh.
C21_RacingRefreshes ==
  /\ []C21_InBudget
  /\ [][access_token' # access_token => \E c \in Callers : C21_Adopts(c)]_vars

\* C21 witness: both callers are posting a refresh after a 401 each, A's
\* having started from a token that B's first acquisition had cached
C21_Witness ==
  /\ call["A"].pc = "post" /\ call["A"].why = "401"
  /\ call["B"].pc = "post" /\ call["B"].why = "401"
  /\ access_token # NoToken

\* a step in which the refresh of caller c ends in failure
C22_Fails(c) ==
  /\ call[c].pc = "post"
  /\ call'[c].pc = "done"
  /\ call'[c].result.kind = "raise"
  /\ call'[c].result.exc.type = HTTPStatusError(NoErr).type

\* C22: the cached credential starts absent and changes only in a step in
\* which a refresh is accepted, to the token of that refresh; a step that
\* ends a refresh in failure (a 400, the last candidate used up, transport
\* errors) leaves it as it was, and so does every other step.
C22_OnlyRefreshWrites ==
  /\ access_token = NoToken
  /\ [][/\ access_token' # access_token => \E c \in Callers : C21_Adopts(c)
        /\ \A c \in Callers : C22_Fails(c) => access_token' = access_token
        /\ (\A c \in Callers : call[c].pc # "post") => access_token' = access_token]_vars

\* C22 witness: a refresh that a 401 started has failed at the last candidate
\* on a transport error, and the token cached before it is still cached
C22_Witness ==
  \E c \in Callers :
    /\ call[c].pc = "done" /\ call[c].why = "401"
    /\ call[c].result.kind = "raise"
    /\ call[c].result.exc.type = HTTPStatusError(NoErr).type
    /\ call[c].result.exc.err.kind = "request error"
    /\ Len(call[c].posted) = Len(Candidates)
    /\ access_token \in {1, 2}

\* ---------------------------------------------- properties of the request
\* the caller's header map of a call, empty when none was given
C23_Own(k) == IF k.args.headers = None THEN <<>> ELSE k.args.headers[1]

\* C23: the headers of the attempt in flight are the caller's headers, each
\* with the caller's value, plus Authorization with "Bearer " and the cached
\* credential when the caller gave no Authorization of its own; this holds of
\* the first attempt and of every retry, with the credential cached when the
\* attempt was sent.
C23_HeadersMerged ==
  \A c \in Callers :
    LET k == call[c]
        H == C23_Own(k)
        sent == LastEv(k).sent[1].headers
    IN (k.op = "request" /\ k.pc = "http")
       => /\ LastEv(k).ev = "api"
          /\ DOMAIN sent = DOMAIN H \cup {"Authorization"}
          /\ \A h \in DOMAIN H : sent[h] = H[h]
          /\ "Authorization" \notin DOMAIN H
               => sent["Authorization"] = <<"Bearer ", access_token>>

\* C23 witness: a retry after a 401 carries the caller's X-Trace header and
\* the bearer of the refreshed credential
C23_Witness ==
  \E c \in Callers :
    /\ call[c].op = "request" /\ call[c].pc = "http"
    /\ call[c].args.headers = Some(TraceHeader)
    /\ Attempt(call[c]) = 2
    /\ CountEv(call[c].trace, "refreshed") = 1
    /\ LastEv(call[c]).sent[1].headers["X-Trace"] = TraceHeader["X-Trace"]
    /\ LastEv(call[c]).sent[1].headers["Authorization"] = <<"Bearer ", access_token>>

\* the body variant that the content type alone calls for
C24_Variant(ctype) ==
  IF \E i \in 1..Len(ctype) : ctype[i] = "application/json" THEN "json"
  ELSE IF \E i \in 1..Len(ctype) : ctype[i] = "text/" THEN "text"
  ELSE "b64"

\* C24: the body that request returns is the parsed JSON when the content
\* type contains application/json, the text when it contains text/, and the
\* base64 text otherwise, whatever expect_json is: the same response ends a
\* call with expect_json set and one without in the same way, and the
\* variant is always one of the three.  (A call that ended in time.sleep did
\* not come to choose a variant.)
C24_VariantByContentType ==
  \A c \in Callers :
    LET k == call[c] IN
    (k.op = "request" /\ k.pc = "done" /\ k.last_resp # None
       /\ k.result.exc.type # SleepValueError(0).type)
      => LET r == k.last_resp[1]
             with == Classify(StOf([k EXCEPT !.args.expect_json = TRUE]), r).c.result
             without == Classify(StOf([k EXCEPT !.args.expect_json = FALSE]), r).c.result
         IN /\ with = without
            /\ k.result = with
            /\ BodyVariant(r.ctype, TRUE) = C24_Variant(r.ctype)
            /\ BodyVariant(r.ctype, FALSE) = C24_Variant(r.ctype)
            /\ k.result.kind = "return"
                 => /\ k.result.body.variant = C24_Variant(r.ctype)
                    /\ k.result.body.variant \in {"json", "text", "b64"}
                    /\ k.result.body.raw = r.raw

\* C24 witness: a call with expect_json = FALSE (as download_bytes_b64 makes)
\* that got application/json returns the parsed JSON
C24_Witness ==
  \E c \in Callers :
    /\ call[c].op = "request" /\ call[c].pc = "done"
    /\ ~call[c].args.expect_json
    /\ call[c].last_resp # None
    /\ call[c].last_resp[1].ctype = JsonType
    /\ call[c].result.kind = "return"
    /\ call[c].result.body.variant = "json"

\* a step in which the refresh of caller c ends without an accepted answer:
\* c was posting, and neither adopts a token nor posts to the next candidate
C25_RefreshEnds(c) ==
  LET i == Len(call[c].trace) + 1 IN
  /\ call[c].pc = "post"
  /\ call'[c] # call[c]
  /\ ~(Len(call'[c].trace) >= i /\ call'[c].trace[i].ev \in {"acquired", "refreshed"})
  /\ ~(call'[c].pc = "post" /\ Len(call'[c].posted) = Len(call[c].posted) + 1)

\* C25: a refresh that fails inside request ends the call at once with the
\* refresh's HTTPStatusError: the step in which the refresh ends without an
\* accepted answer is the step in which request raises, it counts no retry,
\* records no transport error and sends no API attempt; when the failed
\* refresh was the first acquisition of a credential no API attempt was sent
\* at all.
C25_RefreshFailureIsFatal ==
  [][\A c \in Callers :
       (call[c].op = "request" /\ C25_RefreshEnds(c))
         => /\ call'[c].pc = "done"
            /\ call'[c].result.kind = "raise"
            /\ call'[c].result.exc = HTTPStatusError(call'[c].last_err)
            /\ call'[c].retries = call[c].retries
            /\ call'[c].last_exc = call[c].last_exc
            /\ call'[c].trace = call[c].trace
            /\ (call[c].why = "lazy" /\ call[c].retries = 0
                  /\ CountEv(call[c].trace, "refreshed") = 0)
                 => CountEv(call'[c].trace, "api") = 0
            /\ call[c].why = "401"
                 => CountEv(call'[c].trace, "api") = call[c].retries + 1]_vars

\* C25 witness: the first acquisition failed on a 400 and nothing was sent to
\* the API
C25_Witness ==
  \E c \in Callers :
    /\ call[c].op = "request" /\ call[c].pc = "done"
    /\ call[c].why = "lazy"
    /\ call[c].result.kind = "raise"
    /\ call[c].result.exc.type = HTTPStatusError(NoErr).type
    /\ call[c].result.exc.err.status = 400
    /\ call[c].trace = <<>>

\* C25 witness after a 401: the refresh failed with a retry still left
C25_WitnessAfter401 ==
  \E c \in Callers :
    /\ call[c].op = "request" /\ call[c].pc = "done"
    /\ call[c].why = "401"
    /\ call[c].result.kind = "raise"
    /\ call[c].result.exc.type = HTTPStatusError(NoErr).type
    /\ call[c].retries < max_retries
    /\ LastEv(call[c]).ev = "resp" /\ LastEv(call[c]).n = 401

\* C26: request never raises RuntimeError("request failed after retries"):
\* a call that ends without a response and without a failure of the refresh,
\* of r.json() or of time.sleep has had a transport error on its final
\* attempt, attempt max_retries + 1, and raises that error.
C26_NoGenericFailure ==
  \A c \in Callers :
    LET k == call[c] IN
    (k.op = "request" /\ k.pc = "done")
      => /\ k.result.exc # RuntimeErrorRetries
         /\ (k.result.kind = "raise" /\ k.result.exc.type = RequestError(0).type)
              => /\ LastEv(k).ev = "err"
                 /\ Attempt(k) = LastEv(k).n
                 /\ k.result.exc = RequestError(Attempt(k))
                 /\ k.retries = max_retries + 1
         /\ k.retries > max_retries => k.last_exc # None

\* C26 witness: two attempts were answered 401 and 429 and the third and last
\* failed in the transport; its error is raised
C26_Witness ==
  \E c \in Callers :
    /\ call[c].op = "request" /\ call[c].pc = "done"
    /\ max_retries = 2
    /\ CountEv(call[c].trace, "refreshed") = 1
    /\ CountEv(call[c].trace, "sleep") = 1
    /\ CountEv(call[c].trace, "err") = 1
    /\ call[c].result.kind = "raise"
    /\ call[c].result.exc = RequestError(3)

\* every attempt of the call was answered with status s, and the call has
\* ended otherwise than by a failure of the refresh
C27_AllAnswered(k, s) ==
  /\ k.op = "request" /\ k.pc = "done"
  /\ CountEv(k.trace, "api") >= 1
  /\ CountEv(k.trace, "err") = 0
  /\ \A i \in 1..Len(k.trace) : k.trace[i].ev = "resp" => k.trace[i].n = s
  /\ k.result.exc.type # HTTPStatusError(NoErr).type

\* max_retries + 1 attempts, then the envelope with status s
C27_Envelope(k, s) ==
  /\ k.result.kind = "return"
  /\ k.result.status = s
  /\ Attempt(k) = max_retries + 1
  /\ LastEv(k).ev = "resp"

\* C27: when every attempt is answered 401 (and the refreshes succeed),
\* request returns status 401 after exactly max_retries + 1 attempts and
\* max_retries refreshes started by a 401; when every attempt is answered
\* 429 it returns status 429 after max_retries + 1 attempts and max_retries
\* sleeps; nothing follows the final attempt.
C27_ExhaustedReturnsEnvelope ==
  \A c \in Callers :
    LET k == call[c] IN
    /\ C27_AllAnswered(k, 401)
         => C27_Envelope(k, 401) /\ CountEv(k.trace, "refreshed") = max_retries
                                 /\ CountEv(k.trace, "sleep") = 0
    /\ C27_AllAnswered(k, 429)
         => C27_Envelope(k, 429) /\ CountEv(k.trace, "sleep") = max_retries
                                 /\ CountEv(k.trace, "refreshed") = 0

\* The same for the calls that did not end in r.json() or in time.sleep
C27_ExceptDecodeAndSleep ==
  \A c \in Callers :
    LET k == call[c] IN
    k.result.exc.type \notin {JSONDecodeError(0).type, SleepValueError(0).type}
    => /\ C27_AllAnswered(k, 401)
            => C27_Envelope(k, 401) /\ CountEv(k.trace, "refreshed") = max_retries
                                    /\ CountEv(k.trace, "sleep") = 0
       /\ C27_AllAnswered(k, 429)
            => C27_Envelope(k, 429) /\ CountEv(k.trace, "sleep") = max_retries
                                    /\ CountEv(k.trace, "refreshed") = 0

\* C27 case: max_retries = 2 and three attempts answered 429
C27_Witness ==
  \E c \in Callers :
    /\ max_retries = 2
    /\ C27_AllAnswered(call[c], 429)
    /\ C27_Envelope(call[c], 429)
    /\ CountEv(call[c].trace, "sleep") = 2

\* a refresh that a 401 started is under way or has failed
C28_After401(k) ==
  /\ k.op = "request" /\ k.why = "401"
  /\ \/ k.pc = "post"
     \/ k.pc = "done" /\ k.result.exc.type = HTTPStatusError(NoErr).type

\* no call of time.sleep follows a 401
C28_NoSleepAfter401(k) ==
  \A i \in 1..(Len(k.trace) - 1) :
    (k.trace[i].ev = "resp" /\ k.trace[i].n = 401) => k.trace[i + 1].ev # "sleep"

\* C28: on a 401 with retries left the cached credential is
\* invalidated before it is re-acquired, so that while the refresh runs and
\* after it has failed no credential is cached; a 401 causes no sleep.
C28_InvalidatedBeforeRefresh ==
  \A c \in Callers :
    /\ C28_After401(call[c]) => access_token = NoToken
    /\ C28_NoSleepAfter401(call[c])

\* What request does on a 401 with retries left: it starts the refresh with the
\* rejected credential still cached, and when the refresh fails that
\* credential, the one that the rejected attempt carried, is still cached;
\* a 401 causes no sleep.
C28_RejectedCredentialKept ==
  \A c \in Callers :
    LET k == call[c] IN
    /\ C28_After401(k)
         => /\ access_token # NoToken
            /\ LastEv(k).ev = "resp" /\ LastEv(k).n = 401
            /\ "Authorization" \notin DOMAIN C23_Own(k)
                 => k.trace[Len(k.trace) - 1].sent[1].headers["Authorization"]
                      = <<"Bearer ", access_token>>
    /\ C28_NoSleepAfter401(k)

\* C28 witness: the refresh after a 401 was rejected with 400 and token 1 or
\* 2, which the API had answered 401 to, is still cached
C28_Witness ==
  \E c \in Callers :
    /\ C28_After401(call[c]) /\ call[c].pc = "done"
    /\ call[c].result.exc.err.status = 400
    /\ call[c].args.headers = None
    /\ access_token \in {1, 2}
    /\ call[c].trace[Len(call[c].trace) - 1].sent[1].headers["Authorization"]
         = <<"Bearer ", access_token>>

\* ----------------------------------------- properties of the token endpoints
\* the candidates in the order of priority: the override when one is
\* configured, the two endpoints of the tenant, the global endpoint
C29_Order ==
  IF token_url_env # <<>>
    THEN <<token_url_env, <<"https://example.com", "/d2l/oauth2/token">>,
           <<"https://example.com", "/d2l/auth/api/token">>,
           <<"https://auth.brightspace.com/core/connect/token">>>>
    ELSE <<<<"https://example.com", "/d2l/oauth2/token">>,
           <<"https://example.com", "/d2l/auth/api/token">>,
           <<"https://auth.brightspace.com/core/connect/token">>>>

\* the POSTs of a refresh so far went to the first candidates, one POST each
C29_InOrder ==
  \A c \in Callers :
    /\ Len(call[c].posted) <= Len(C29_Order)
    /\ \A i \in 1..Len(call[c].posted) : call[c].posted[i].url = C29_Order[i]

\* a step of a refresh that posts: either to the candidate after the one that
\* has just ended with neither an accepted answer nor a 400, or to the first
\* candidate of a new refresh after an adopted token that is empty
C29_StepInOrder(c) ==
  LET k == call[c]
      n == Len(k.posted)
      after == call'[c]
  IN (k.pc = "post" /\ after.posted # k.posted) =>
       \/ /\ n < Len(C29_Order)
          /\ after.posted = Append(k.posted, [url |-> C29_Order[n + 1], data |-> PostData(St(c))])
          /\ after.answer # None
          /\ after.answer[1].cand = n
          /\ ~Accepted(after.answer[1].a)
          /\ ~(after.answer[1].a.kind = "response" /\ after.answer[1].a.status = 400)
       \/ /\ C21_Adopts(c)
          /\ access_token' = EmptyToken
          /\ after.posted = <<[url |-> C29_Order[1], data |-> PostData(St(c))]>>

\* C29: a refresh posts to the candidates strictly in the order override (when
\* configured), <base>/d2l/oauth2/token, <base>/d2l/auth/api/token, the global
\* endpoint, each at most once, and a later candidate is posted to only after
\* the one before it ended with neither success nor a 400.
C29_CandidatesInOrder ==
  []C29_InOrder /\ [][\A c \in Callers : C29_StepInOrder(c)]_vars

\* C29 witness: with an override configured all four candidates were posted
\* to, the override first and the global endpoint last
C29_Witness ==
  \E c \in Callers :
    /\ token_url_env = <<"https://login.example.com/token">>
    /\ Len(call[c].posted) = 4
    /\ call[c].posted[1].url = token_url_env
    /\ call[c].posted[2].url = <<"https://example.com", "/d2l/oauth2/token">>
    /\ call[c].posted[3].url = <<"https://example.com", "/d2l/auth/api/token">>
    /\ call[c].posted[4].url = <<"https://auth.brightspace.com/core/connect/token">>
    /\ call[c].pc = "post"

\* the answer that ended the POST to candidate n in this step of caller c was
\* neither accepted nor a 400
C30_Unaccepted(c, n) ==
  /\ call[c].pc = "post" /\ call[c].cand = n
  /\ call'[c] # call[c]
  /\ call'[c].answer # None
  /\ call'[c].answer[1].cand = n
  /\ ~Accepted(call'[c].answer[1].a)
  /\ ~(call'[c].answer[1].a.kind = "response" /\ call'[c].answer[1].a.status = 400)

\* what such a step does: the outcome is the last error, and the POST to the
\* next candidate is under way, or with no candidate left the refresh raises
C30_RecordedAndNext(c, n) ==
  LET k == call[c]
      after == call'[c]
      a == after.answer[1].a
  IN /\ C9_Recorded(a, C29_Order[n], after.last_err)
     /\ (a.kind = "response" /\ a.status \notin {404, 410, 302}
           => after.last_err.body = TokenBody(a))
     /\ access_token' = access_token
     /\ IF n < Len(C29_Order)
          THEN /\ after.pc = "post"
               /\ after.cand = n + 1
               /\ after.posted = Append(k.posted, [url |-> C29_Order[n + 1],
                                                   data |-> PostData(St(c))])
               /\ after.trace = k.trace
          ELSE /\ after.pc = "done"
               /\ after.result.kind = "raise"
               /\ after.result.exc = HTTPStatusError(after.last_err)

\* C30: an outcome of a candidate other than success and 400 (a 404, a 410, a
\* redirect, any other status, a 200 without access_token among them, or a
\* transport error) is recorded as the last error and the refresh goes on to
\* the next candidate; a transport error does not end the refresh while a
\* candidate remains.
C30_OtherOutcomesGoOn ==
  [][\A c \in Callers : \A n \in 1..Len(C29_Order) :
       C30_Unaccepted(c, n) => C30_RecordedAndNext(c, n)]_vars

\* C30 witness: the second of four candidates failed in the transport, and
\* the POST to the third is under way with the transport error recorded
C30_Witness ==
  \E c \in Callers :
    /\ Len(C29_Order) = 4
    /\ call[c].pc = "post" /\ call[c].cand = 3
    /\ Len(call[c].posted) = 3
    /\ call[c].answer # None
    /\ call[c].answer[1].a.kind = "error" /\ call[c].answer[1].cand = 2
    /\ call[c].last_err.kind = "request error"

\* ------------------------------------------- properties of the whole session
\* the form that a refresh posts with the credentials given at construction
C31_GivenData ==
  [grant_type |-> "refresh_token", refresh_token |-> <<"rt0">>,
   client_id |-> <<"id0">>, client_secret |-> <<"secret0">>]

\* C31: no operation of the session changes the refresh credential, the client
\* id and secret or the base host: every refresh POST carries the credentials
\* given at construction, also after a token answer that held a refresh token of
\* its own, and every API request goes to the host given at construction.
C31_CredentialsNeverChange ==
  /\ refresh_token = <<"rt0">>
  /\ client_id = <<"id0">>
  /\ client_secret = <<"secret0">>
  /\ \A c \in Callers :
       /\ \A i \in 1..Len(call[c].posted) : call[c].posted[i].data = C31_GivenData
       /\ \A i \in 1..Len(call[c].trace) :
            call[c].trace[i].ev = "api" =>
              call[c].trace[i].sent[1].url[1] = "https://example.com"

\* C31 witness: a refresh after a 401 is posting the refresh token given at
\* construction although the answer that was adopted earlier in the call held
\* another one
C31_Witness ==
  \E c \in Callers :
    /\ call[c].pc = "post" /\ call[c].why = "401"
    /\ CountEv(call[c].trace, "acquired") = 1
    /\ Len(call[c].posted) = 1
    /\ call[c].posted[1].data.refresh_token = <<"rt0">>
    /\ access_token \in {1, 2}

\* --------------------------------------- properties of the walker's requests
\* the query of the first page: pageSize and the caller's params
C32_FirstParams(pargs) ==
  IF pargs.params = None THEN [pageSize |-> pargs.page_size]
  ELSE [key \in {"pageSize"} \cup DOMAIN pargs.params[1] |->
          IF key \in DOMAIN pargs.params[1] THEN pargs.params[1][key]
          ELSE pargs.page_size]

\* the value that is the first non-empty one among Bookmark, Next and bookmark
\* of a page, "null" when there is none
C32_Extracted(pg) ==
  LET doc == Json(pg.body.raw)
      vals == <<doc.Bookmark, doc.Next, doc.bookmark>>
      full == {i \in 1..3 : vals[i] # "null" /\ vals[i] # ""}
  IN IF full = {} THEN "null" ELSE vals[MinOf(full)]

\* C32: the first page request of paginate_bookmark carries pageSize and the
\* caller's params and no cursor of the walker's, and page request i + 1
\* carries under bookmark the cursor taken from the answer to page i, in place
\* of a bookmark of the caller's, with pageSize and the caller's other params
\* the same on every page.
C32_PageParams ==
  \A c \in Callers :
    LET k == call[c]
        first == C32_FirstParams(k.pargs)
    IN k.op = "paginate" =>
         /\ (Len(k.plog) >= 1 => k.plog[1].params = first)
         /\ \A i \in 1..(Len(k.plog) - 1) :
              /\ C32_Extracted(k.plog[i]) # "null"
              /\ DOMAIN k.plog[i + 1].params = DOMAIN first \cup {"bookmark"}
              /\ k.plog[i + 1].params.bookmark = C32_Extracted(k.plog[i])
              /\ \A key \in DOMAIN first \ {"bookmark"} :
                   k.plog[i + 1].params[key] = first[key]

\* C32 witness: the caller passed bookmark b0, which the first page request
\* carries; the second carries b1 from the first page and the third b2 from
\* the second
C32_Witness ==
  \E c \in Callers :
    /\ call[c].op = "paginate"
    /\ call[c].pargs.params # None
    /\ Len(call[c].plog) = 3
    /\ call[c].plog[1].params = [pageSize |-> 2, orgUnitId |-> "1", bookmark |-> "b0"]
    /\ call[c].plog[2].params = [pageSize |-> 2, orgUnitId |-> "1", bookmark |-> "b1"]
    /\ call[c].plog[3].params = [pageSize |-> 2, orgUnitId |-> "1", bookmark |-> "b2"]

\* the items of a page: the value under Items when it is not empty, else the
\* value under items, else nothing
C33_Items(pg) ==
  LET doc == Json(pg.body.raw)
  IN IF doc.Items # <<>> THEN doc.Items
     ELSE IF doc.items # <<>> THEN doc.items
     ELSE <<>>

\* the pages that the walker has taken items and a cursor from
C33_Taken(k) ==
  {i \in 1..Len(k.plog) : C14_Good(k.plog[i])}

RECURSIVE C33_Gathered(_, _)
\* the items of the pages taken among the first n, in page order
C33_Gathered(k, n) ==
  IF n = 0 THEN <<>>
  ELSE C33_Gathered(k, n - 1) \o (IF n \in C33_Taken(k) THEN C33_Items(k.plog[n]) ELSE <<>>)

\* C33: for every page that is a JSON object the next cursor is the first
\* non-empty value among Bookmark, Next and bookmark, in that order: an empty
\* or null value under an earlier key does not hide a non-empty later one, and
\* when all three are absent or empty the walk ends; the items of the page are
\* the value under Items if not empty, else under items, else nothing.
C33_CursorAndItems ==
  \A c \in Callers :
    LET k == call[c] IN
    k.op = "paginate" =>
      /\ \A i \in C33_Taken(k) :
           IF C32_Extracted(k.plog[i]) = "null"
             THEN /\ Len(k.plog) = i
                  /\ k.pc = "done" /\ k.returned
                  /\ k.out.status = 200
                  /\ k.out.bookmarks = k.bookmarks
                  /\ Len(k.bookmarks) = i - 1
             ELSE /\ Len(k.bookmarks) >= i
                  /\ k.bookmarks[i] = C32_Extracted(k.plog[i])
                  /\ (i < k.pargs.max_pages =>
                        /\ Len(k.plog) > i
                        /\ k.plog[i + 1].params.bookmark = C32_Extracted(k.plog[i]))
                  /\ (i = k.pargs.max_pages =>
                        /\ k.pc = "done" /\ k.returned
                        /\ k.out.last_bookmark = C32_Extracted(k.plog[i]))
      /\ k.merged = C33_Gathered(k, Len(k.plog))

\* C33 witness: the first page has an empty Bookmark, Next b2 and items [4]
\* under the lower-case key, the second a null Bookmark, an empty Next,
\* bookmark b3 and [5] under Items; the walk went on with b2 and then b3
C33_Witness ==
  \E c \in Callers :
    /\ call[c].op = "paginate"
    /\ Len(call[c].plog) = 3
    /\ call[c].plog[1].status = 200 /\ call[c].plog[1].body.raw = "p4next"
    /\ call[c].plog[2].status = 200 /\ call[c].plog[2].body.raw = "p5low"
    /\ call[c].plog[2].params.bookmark = "b2"
    /\ call[c].plog[3].params.bookmark = "b3"
    /\ call[c].merged = <<4, 5>>
    /\ call[c].bookmarks = <<"b2", "b3">>

\* ------------------------------------------- properties of the acquisition
\* the refreshes that a call to request has started: those that adopted a
\* token, and the one under way or failed
C34_Refreshes(k) ==
  CountEv(k.trace, "acquired") + CountEv(k.trace, "refreshed")
  + (IF k.pc = "post" \/ (k.pc = "done" /\ k.result.exc.type = HTTPStatusError(NoErr).type)
       THEN 1 ELSE 0)

\* the 401 answers that the call has received
C34_Rejections(k) ==
  Cardinality({i \in 1..Len(k.trace) : k.trace[i].ev = "resp" /\ k.trace[i].n = 401})

\* the counts that the claim gives for one call
C34_Minimal(k) ==
  /\ \A i \in ApiPos(k.trace) :
       i = MinOf(ApiPos(k.trace)) => i <= 2 /\ (i = 2 => k.trace[1].ev = "acquired")
  /\ (k.trace # <<>> /\ k.trace[1].ev = "api" /\ C34_Rejections(k) = 0
        => C34_Refreshes(k) = 0)
  /\ C34_Refreshes(k) <= 1 + C34_Rejections(k)
  /\ C34_Refreshes(k) <= 1 + max_retries

\* C34: a request on a session without a cached credential runs exactly one
\* refresh before its first API attempt, a request on a session with a cached
\* credential that receives no 401 runs none, and within one call the number
\* of refreshes is at most 1 plus the number of 401 answers, hence at most
\* 1 + max_retries.
C34_LazyAndMinimal ==
  \A c \in Callers : call[c].op = "request" => C34_Minimal(call[c])

\* The same for the calls in which no token endpoint answered an empty
\* access_token
C34_ExceptEmptyTokens ==
  \A c \in Callers :
    LET k == call[c] IN
    (/\ k.op = "request"
     /\ \A i \in 1..Len(k.trace) :
          k.trace[i].ev \in {"acquired", "refreshed"} => k.trace[i].n # EmptyToken)
    => C34_Minimal(k)

\* C34 case: the first refresh adopted an empty access_token, the attempt
\* sent with it was answered 429, and after the backoff a second refresh ran
\* although no 401 was received
C34_Witness ==
  \E c \in Callers :
    LET k == call[c] IN
    /\ k.op = "request" /\ Len(k.trace) >= 5
    /\ k.trace[1].ev = "acquired" /\ k.trace[1].n = EmptyToken
    /\ k.trace[2].ev = "api"
    /\ k.trace[3].ev = "resp" /\ k.trace[3].n = 429
    /\ k.trace[4].ev = "sleep"
    /\ k.trace[5].ev = "acquired"
    /\ C34_Rejections(k) = 0
    /\ C34_Refreshes(k) = 2

\* -------------------------------------- properties of the bearer credential
\* the Authorization header of the API request at position i of a trace
C35_Carried(k, i) == k.trace[i].sent[1].headers["Authorization"]

\* C35: every API request that the session sends, from request and from
\* upload_multipart, on first use, on retries and with two callers, carries a
\* bearer credential that a successful refresh produced; none is sent while
\* no credential is cached.
C35_BearerOnEveryRequest ==
  \A c \in Callers :
    \A i \in ApiPos(call[c].trace) :
      C35_Carried(call[c], i) \in {Bearer(1), Bearer(2), Bearer(EmptyToken)}

\* What holds of every API request: unless the caller's own headers hold an
\* Authorization, the request carries Bearer and a token, and the token is
\* null only when the refresh that _auth_headers awaited has just adopted a
\* null access_token
C35_BearerUnlessOwnOrNull ==
  \A c \in Callers :
    LET k == call[c] IN
    \A i \in ApiPos(k.trace) :
      "Authorization" \notin DOMAIN C23_Own(k) =>
        \E t \in {NoToken, EmptyToken, 1, 2} :
          /\ C35_Carried(k, i) = Bearer(t)
          /\ (t = NoToken => i > 1 /\ k.trace[i - 1].ev = "acquired"
                                   /\ k.trace[i - 1].n = NoToken)

\* C35 case: the token endpoint answered 200 with a null access_token, and
\* the POST of upload_multipart is in flight with "Bearer None" while no
\* credential is cached
C35_Witness ==
  \E c \in Callers :
    /\ call[c].op = "upload" /\ call[c].pc = "upload"
    /\ access_token = NoToken
    /\ \A d \in Callers \ {c} : call[d] = IdleCall
    /\ C35_Carried(call[c], Len(call[c].trace)) = Bearer(NoToken)

\* ------------------------------------ properties of the dispatcher's loop
\* the exceptions that request raises
C36_RequestExceptions ==
  {ValueErrorPath.type, RequestError(0).type, HTTPStatusError(NoErr).type,
   JSONDecodeError(0).type, SleepValueError(0).type}

\* C36: for either family and every supplied candidate list, an empty one
\* included, the dispatcher issues at least one request and requests each
\* distinct version at most once in a call; the assertion that a last result
\* exists never fails, and a call whose requests return ends by returning a
\* response triple (an exception of request is passed on as it is).
C36_AtLeastOneRequest ==
  \A c \in Callers :
    LET k == call[c]
        n == Len(k.vlog)
    IN k.op \in {"lp", "le"} =>
         /\ k.uniq # <<>>
         /\ n >= 1
         /\ \A i, j \in 1..n : k.vlog[i].ver = k.vlog[j].ver => i = j
         /\ k.result.exc.type # AssertionErrorLast.type
         /\ (k.returned =>
               \/ /\ k.result.kind = "return"
                  /\ k.result.status = k.vlog[n].status
                  /\ k.result.status # 0
               \/ /\ k.result.kind = "raise"
                  /\ k.result.exc.type \in C36_RequestExceptions)

\* C36 witness: le on a session whose candidate list is empty, called with an
\* empty versions argument: one request, for the default version, and its
\* answer returned
C36_Witness ==
  \E c \in Callers :
    /\ call[c].op = "le" /\ call[c].returned
    /\ le_versions = <<>>
    /\ call[c].fargs.versions \in {None, Some(<<>>)}
    /\ Len(call[c].vlog) = 1
    /\ call[c].vlog[1].ver = le_version
    /\ call[c].result.kind = "return" /\ call[c].result.status = 200

\* ------------------------------- properties of a wrapper over the dispatcher
\* a wrapper whose dispatcher has returned a triple
C37_Dispatched(k) ==
  /\ k.wrapper # NoWrapper /\ k.wrapper.name # "-"
  /\ k.pc = "done" /\ k.returned
  /\ k.result.kind = "return"
  /\ k.vlog # <<>>

\* every request of the call but the latest was answered 404 or 410
C37_EarlierMismatched(k) ==
  \A i \in 1..(Len(k.vlog) - 1) : k.vlog[i].status \in {404, 410}

\* C37: a wrapper over the dispatcher does not surface the 404 or 410 of an
\* earlier version: when earlier versions answered 404 or 410 and a later one a
\* status below 400, the wrapper raises no error for a status and returns the
\* body of that later answer (its assertion on the kind of body apart); it
\* raises for a 404 or 410 only when every distinct version answered 404 or 410.
C37_MismatchNotSurfaced ==
  \A c \in Callers :
    LET k == call[c]
        n == Len(k.vlog)
    IN C37_Dispatched(k) =>
         /\ (n >= 2 /\ C37_EarlierMismatched(k) /\ k.vlog[n].status < 400)
              => /\ k.wout.type # "RuntimeError"
                 /\ IF DataKind(k.result.body) \in k.wrapper.accepts
                      THEN /\ k.wout.kind = "return"
                           /\ k.wout.value = [variant |-> BodyVariant(k.last_resp[1].ctype, TRUE),
                                              raw |-> k.last_resp[1].raw]
                      ELSE k.wout = WrapperAssertionError
         /\ (k.wout.kind = "raise" /\ k.wout.type = "RuntimeError"
               /\ k.wout.msg[3] \in {404, 410})
              => /\ n = Len(k.uniq)
                 /\ \A i \in 1..n : k.vlog[i].status \in {404, 410}
                 /\ \A i, j \in 1..n : k.vlog[i].ver = k.vlog[j].ver => i = j
                 /\ k.wout.msg[3] = k.vlog[n].status

\* C37 witness: whoami on a session with the versions 1.50 and 1.46: 1.50
\* answered 404, 1.46 answered 200 with a JSON object, which whoami returned
C37_Witness ==
  \E c \in Callers :
    /\ C37_Dispatched(call[c])
    /\ call[c].wrapper.name = "whoami"
    /\ Len(call[c].vlog) = 2
    /\ call[c].vlog[1].ver = V150 /\ call[c].vlog[1].status = 404
    /\ call[c].vlog[2].ver = V146 /\ call[c].vlog[2].status = 200
    /\ call[c].wout.kind = "return"
    /\ call[c].wout.value = [variant |-> "json", raw |-> "p3"]

\* ---------------------------------------------- properties of the upload
\* what the claim says of one call of upload_multipart
C38_OnePost(k) ==
  /\ CountEv(k.trace, "api") <= 1
  /\ CountEv(k.trace, "sleep") = 0
  /\ CountEv(k.trace, "refreshed") = 0
  /\ \A i \in 1..Len(k.trace) :
       /\ k.trace[i].ev = "acquired" => i = 1
       /\ k.trace[i].ev = "api" => k.trace[i].sent[1].method = "POST"
       /\ k.trace[i].ev = "resp"
            => /\ i = Len(k.trace) /\ k.trace[i - 1].ev = "api"
               /\ k.pc = "done"
               /\ k.result.kind = "return"
               /\ k.result.status = k.trace[i].n
       /\ k.trace[i].ev = "err"
            => /\ i = Len(k.trace) /\ k.trace[i - 1].ev = "api"
               /\ k.pc = "done"
               /\ k.result.kind = "raise"
               /\ k.result.exc.type = RequestError(0).type
  /\ (k.pc = "done" /\ k.result.exc.type # HTTPStatusError(NoErr).type
        => CountEv(k.trace, "api") = 1)

\* C38: upload_multipart issues exactly one POST in a call, after acquiring a
\* credential when none is cached: a 401 or 429 answer is returned with its
\* status, without a refresh, a sleep or a second attempt, and a transport
\* error is raised at once.
C38_UploadSinglePost ==
  \A c \in Callers : call[c].op = "upload" => C38_OnePost(call[c])

\* The same for the calls that did not end in r.json()
C38_ExceptDecode ==
  \A c \in Callers :
    (call[c].op = "upload" /\ call[c].result.exc.type # JSONDecodeError(0).type)
      => C38_OnePost(call[c])

\* C38 case: the POST was answered 401 with a JSON content type and a body
\* that is not JSON, and upload_multipart raised instead of returning 401
C38_Witness ==
  \E c \in Callers :
    /\ call[c].op = "upload" /\ call[c].pc = "done"
    /\ call[c].trace # <<>>
    /\ LastEv(call[c]).ev = "resp" /\ LastEv(call[c]).n = 401
    /\ CountEv(call[c].trace, "api") = 1
    /\ call[c].result.kind = "raise"
    /\ call[c].result.exc.type = JSONDecodeError(0).type

\* ------------------------------------------- properties of the operations' ends
\* the distinct candidates of a version dispatch
C39_N(k) == Cardinality({k.uniq[i] : i \in 1..Len(k.uniq)})

\* the most API attempts an operation can have made so far: its requests
\* before the current one at a full budget each, and the attempts of the
\* current one
C39_Total(k, requests) == (requests - 1) * (max_retries + 1) + Attempt(k)

\* the attempts of a request, the POSTs of a refresh, the requests of a
\* dispatch and the requests of a walk are within their bounds
C39_Bounded ==
  \A c \in Callers :
    LET k == call[c] IN
      /\ Attempt(k) <= max_retries + 1
      /\ Len(k.posted) <= Len(Candidates)
      /\ \A i, j \in 1..Len(k.posted) : i # j => k.posted[i].url # k.posted[j].url
      /\ k.op = "lp" =>
           /\ Len(k.vlog) <= C39_N(k)
           /\ C39_Total(k, Len(k.vlog)) <= C39_N(k) * (max_retries + 1)
      /\ k.op = "paginate" =>
           /\ k.npages <= k.pargs.max_pages
           /\ C39_Total(k, k.npages) <= k.pargs.max_pages * (max_retries + 1)

\* an operation with an HTTP call or a backoff under way
C39_Running(c) == call[c].pc \in {"http", "post", "sleep", "upload"}

\* C39: when every HTTP call ends with an answer or a failure, every operation
\* ends: a request within max_retries + 1 API attempts, a refresh within one
\* POST per candidate endpoint, a version dispatch within
\* N x (max_retries + 1) API attempts for its N distinct candidates, and a
\* walk of pages within max_pages x (max_retries + 1) API attempts.
C39_EveryOperationEnds ==
  /\ []C39_Bounded
  /\ \A c \in Callers : C39_Running(c) ~> (call[c].pc = "done")

\* C39 case: a dispatch over two candidates has ended with the budget of its
\* last request used up, a backoff included
C39_Witness ==
  \E c \in Callers :
    /\ call[c].op = "lp" /\ call[c].pc = "done"
    /\ max_retries = 1
    /\ C39_N(call[c]) = 2 /\ Len(call[c].vlog) = 2
    /\ Attempt(call[c]) = max_retries + 1
    /\ CountEv(call[c].trace, "sleep") = 1

\* ------------------------------------------------ properties of the tokens lock
\* a process between the lock it was granted and its end or its unlock
C40_Holds(p) == procs[p].pc \in {"locked", "serving"}

\* a process that found the lock held has ended with status 1 and has
\* spawned nothing
C40_BlockedExits ==
  \A p \in Procs :
    procs[p].blocked =>
      /\ procs[p].pc = "exited" /\ procs[p].code = 1
      /\ ~procs[p].spawned /\ procs[p].server = "none"

\* a step of a process at the lock: when another process holds the lock the
\* step itself ends the process, and a server is spawned only by the holder
C40_NoWaitAndSpawnUnderLock(p) ==
  /\ (procs[p].pc = "start" /\ procs'[p] # procs[p]
        /\ locks[procs[p].lock] \notin {"none", p})
       => (procs'[p].pc = "exited" /\ procs'[p].blocked /\ ~procs'[p].spawned)
  /\ (procs'[p].spawned /\ ~procs[p].spawned)
       => (C40_Holds(p) /\ locks[procs[p].lock] = p /\ locks' = locks)

\* C40: among the bootstrap and launcher processes started in one directory at
\* most one at a time holds the exclusive tokens lock and spawns the MCP
\* server, and a process that finds the lock held exits with an error, without
\* waiting and without spawning a server.
C40_OneHolderInDirectory ==
  /\ \A p, q \in Procs : (C40_Holds(p) /\ C40_Holds(q)) => p = q
  /\ C40_BlockedExits

\* The same among the processes that use one lock file: the bootstraps and
\* the launchers whose BS_TOKENS_LOCK is unset or names the same file
C40_OneHolderPerLockFile ==
  /\ [](/\ \A p, q \in Procs :
            (C40_Holds(p) /\ C40_Holds(q) /\ procs[p].lock = procs[q].lock) => p = q
        /\ C40_BlockedExits)
  /\ [][\A p \in Procs : C40_NoWaitAndSpawnUnderLock(p)]_vars

\* C40 case: a process serves under the lock while another process of the
\* same lock file has found the lock held and has exited with status 1
C40_Witness ==
  \E p, q \in Procs :
    /\ p # q /\ procs[p].lock = procs[q].lock
    /\ procs[p].pc = "serving" /\ procs[p].server = "running" /\ locks[procs[p].lock] = p
    /\ procs[q].blocked /\ procs[q].pc = "exited" /\ procs[q].code = 1
    /\ ~procs[q].spawned

=============================================================================
